---- MODULE Spec2Model ----
(***************************************************************************)
(* Model of the two-stage tool orchestration (ChatBot.chat), the tool      *)
(* registry and its tool-call parser (ToolRegistry) and the inference      *)
(* client (OllamaClient.generate, OllamaClient.generate_stream).           *)
(*                                                                         *)
(* Text is modelled as a sequence of tokens (a token is a TLA+ string);    *)
(* string concatenation and f-string formatting are sequence               *)
(* concatenation, str.find / `in` are searches over the token sequence.    *)
(***************************************************************************)
EXTENDS Integers, Sequences, FiniteSets, TLC

(***************************************************************************)
(* Text helpers                                                            *)
(***************************************************************************)

\* Python's Optional: None, or a value.
None == [some |-> FALSE, v |-> <<>>]

Some(x) == [some |-> TRUE, v |-> x]

\* str(x) of an Optional[str] inside an f-string: None formats as "None".
FormatOpt(o) == IF o.some THEN o.v ELSE <<"None">>

\* Whitespace tokens.
WS == {" ", "\n"}

\* str.strip(): drop leading and trailing whitespace.
Strip(t) ==
    LET keep == {i \in 1..Len(t) : t[i] \notin WS}
    IN  IF keep = {} THEN <<>>
        ELSE LET lo == CHOOSE i \in keep : \A j \in keep : i <= j
                 hi == CHOOSE i \in keep : \A j \in keep : j <= i
             IN  SubSeq(t, lo, hi)

(***************************************************************************)
(* JSON values and json.loads over token sequences                         *)
(***************************************************************************)

\* String literal tokens and the Python string each decodes to.
StrOf ==
    ( "\"tool\"" :> "tool" @@ "\"parameters\"" :> "parameters"
      @@ "\"web_search\"" :> "web_search" @@ "\"boom\"" :> "boom"
      @@ "\"nope\"" :> "nope" @@ "\"query\"" :> "query"
      @@ "\"rain\"" :> "rain" @@ "\"name\"" :> "name"
      @@ "\"self\"" :> "self" @@ "\"\"" :> "" )

\* Number literal tokens.
NumOf == ( "0" :> 0 @@ "5" :> 5 )

JStr(s) == [k |-> "str", s |-> s, n |-> 0, items |-> <<>>]

JNum(n) == [k |-> "num", s |-> "", n |-> n, items |-> <<>>]

JNull == [k |-> "null", s |-> "", n |-> 0, items |-> <<>>]

JBool(b) == [k |-> "bool", s |-> "", n |-> IF b THEN 1 ELSE 0, items |-> <<>>]

\* A list's items and an object's members are [key, val] records; a list
\* item has the empty key.
JList(items) == [k |-> "list", s |-> "", n |-> 0, items |-> items]

JObj(items) == [k |-> "obj", s |-> "", n |-> 0, items |-> items]

\* Python truthiness: None, False, 0, "", [] and {} are falsy.
Truthy(v) ==
    CASE v.k = "str" -> v.s # ""
      [] v.k = "num" -> v.n # 0
      [] v.k = "bool" -> v.n = 1
      [] v.k = "null" -> FALSE
      [] OTHER -> Len(v.items) > 0

\* hash(v) succeeds: lists and dicts are unhashable.
Hashable(v) == v.k \notin {"list", "obj"}

\* key in dict
HasKey(obj, key) == \E i \in 1..Len(obj.items) : obj.items[i].key = key

\* dict[key]: json.loads keeps the last of duplicate members.
GetKey(obj, key) ==
    LET idx == {i \in 1..Len(obj.items) : obj.items[i].key = key}
    IN  obj.items[CHOOSE i \in idx : \A j \in idx : j <= i].val

DictKeys(obj) == {obj.items[i].key : i \in 1..Len(obj.items)}

DecodeFail == [ok |-> FALSE, val |-> JNull, pos |-> 0]

SkipWS(t, i) ==
    CHOOSE j \in i..(Len(t) + 1) :
        /\ (j = Len(t) + 1 \/ t[j] \notin WS)
        /\ \A m \in i..(j - 1) : t[m] \in WS

RECURSIVE ParseValue(_, _)
RECURSIVE ParseList(_, _, _, _)
RECURSIVE ParseObject(_, _, _, _)

\* One JSON value starting at token i (after whitespace).
ParseValue(t, i) ==
    LET j == SkipWS(t, i)
    IN  IF j > Len(t) THEN DecodeFail
        ELSE IF t[j] \in DOMAIN StrOf
             THEN [ok |-> TRUE, val |-> JStr(StrOf[t[j]]), pos |-> j + 1]
        ELSE IF t[j] \in DOMAIN NumOf
             THEN [ok |-> TRUE, val |-> JNum(NumOf[t[j]]), pos |-> j + 1]
        ELSE IF t[j] = "null" THEN [ok |-> TRUE, val |-> JNull, pos |-> j + 1]
        ELSE IF t[j] = "true"
             THEN [ok |-> TRUE, val |-> JBool(TRUE), pos |-> j + 1]
        ELSE IF t[j] = "false"
             THEN [ok |-> TRUE, val |-> JBool(FALSE), pos |-> j + 1]
        ELSE IF t[j] = "[" THEN ParseList(t, j + 1, <<>>, TRUE)
        ELSE IF t[j] = "{" THEN ParseObject(t, j + 1, <<>>, TRUE)
        ELSE DecodeFail

\* The items of a list, after "[" (first) or after ",".
ParseList(t, i, acc, first) ==
    LET j == SkipWS(t, i)
    IN  IF j > Len(t) THEN DecodeFail
        ELSE IF first /\ t[j] = "]"
             THEN [ok |-> TRUE, val |-> JList(acc), pos |-> j + 1]
        ELSE LET r == ParseValue(t, j)
                 m == SkipWS(t, r.pos)
                 acc2 == Append(acc, [key |-> "", val |-> r.val])
             IN  IF ~r.ok \/ m > Len(t) THEN DecodeFail
                 ELSE IF t[m] = "," THEN ParseList(t, m + 1, acc2, FALSE)
                 ELSE IF t[m] = "]"
                      THEN [ok |-> TRUE, val |-> JList(acc2), pos |-> m + 1]
                 ELSE DecodeFail

\* The members of an object, after "{" (first) or after ",".
ParseObject(t, i, acc, first) ==
    LET j == SkipWS(t, i)
    IN  IF j > Len(t) THEN DecodeFail
        ELSE IF first /\ t[j] = "}"
             THEN [ok |-> TRUE, val |-> JObj(acc), pos |-> j + 1]
        ELSE IF t[j] \notin DOMAIN StrOf THEN DecodeFail
        ELSE LET c == SkipWS(t, j + 1)
             IN  IF c > Len(t) \/ t[c] # ":" THEN DecodeFail
                 ELSE LET r == ParseValue(t, c + 1)
                          m == SkipWS(t, r.pos)
                          acc2 == Append(acc, [key |-> StrOf[t[j]], val |-> r.val])
                      IN  IF ~r.ok \/ m > Len(t) THEN DecodeFail
                          ELSE IF t[m] = ","
                               THEN ParseObject(t, m + 1, acc2, FALSE)
                          ELSE IF t[m] = "}"
                               THEN [ok |-> TRUE, val |-> JObj(acc2), pos |-> m + 1]
                          ELSE DecodeFail

\* json.loads(text): one value and nothing but whitespace after it;
\* ok = FALSE stands for json.JSONDecodeError.
JsonLoads(t) ==
    LET r == ParseValue(t, 1)
    IN  IF r.ok /\ SkipWS(t, r.pos) > Len(t) THEN r ELSE DecodeFail

(***************************************************************************)
(* ToolRegistry                                                            *)
(***************************************************************************)

\* A registered Tool: name, description, parameters (param, description
\* pairs in dict order) and the handler bound to it.
Tool(name, description, parameters, function) ==
    [name |-> name, description |-> description,
     parameters |-> parameters, function |-> function]

\* SearchConfig.max_results
max_results == 5

\* The tool create_default_registry registers.
WebSearchToolEntry ==
    Tool("web_search", "Search the web using DuckDuckGo.",
         << <<"query", "The search query string">>,
            <<"max_results", "Maximum number of results (default: " \o ToString(max_results) \o ")">> >>,
         "web_search_tool.search")

\* A tool whose handler always raises.
BoomToolEntry ==
    Tool("boom", "Always fails.", << <<"query", "Anything">> >>, "raising")

\* A second descriptor under the name web_search.
OtherSearchToolEntry ==
    Tool("web_search", "Search a local index.", << <<"q", "The query">> >>, "local_search")

EchoToolEntry ==
    Tool("echo", "Repeats its input.", << <<"text", "The text">> >>, "echo")

\* Least index >= start of a token of toks in t, 0 when there is none
\* (str.find's -1).
Find(t, toks, start) ==
    LET hits == {i \in start..Len(t) : t[i] \in toks}
    IN  IF hits = {} THEN 0 ELSE CHOOSE i \in hits : \A j \in hits : i <= j

\* Greatest index of a token of toks in t, 0 when there is none (str.rfind).
RFind(t, toks) ==
    LET hits == {i \in 1..Len(t) : t[i] \in toks}
    IN  IF hits = {} THEN 0 ELSE CHOOSE i \in hits : \A j \in hits : j <= i

\* The triple-backtick marker is the token <fence>, the annotated one
\* <fence>json; the text of the marker occurs in both.
Fences == {"<fence>", "<fence>json"}

\* StripFence that leaves the text as it is.
StripFence_Identity(t) == t

\* Lines 208-218: the interior of the first closed fenced block, if any.
StripFence(t) ==
    IF Find(t, {"<fence>json"}, 1) # 0
    THEN LET json_start == Find(t, {"<fence>json"}, 1) + 1
             json_end == Find(t, Fences, json_start)
         IN  IF json_end # 0 THEN Strip(SubSeq(t, json_start, json_end - 1)) ELSE t
    ELSE IF Find(t, Fences, 1) # 0
    THEN LET json_start == Find(t, Fences, 1) + 1
             json_end == Find(t, Fences, json_start)
         IN  IF json_end # 0 THEN Strip(SubSeq(t, json_start, json_end - 1)) ELSE t
    ELSE t

NoToolCall == [tool |-> JNull, parameters |-> JNull]

\* ToolRegistry.parse_tool_call: (tool_name, parameters), (None, None) when
\* no call is found. Python's None is JNull.
parse_tool_call(response_text) ==
    LET t == StripFence(Strip(response_text))
        json_start == Find(t, {"{"}, 1)
        json_end == RFind(t, {"}"})
    IN  IF Find(t, {"\"tool\""}, 1) = 0 THEN NoToolCall
        ELSE IF ~(json_start # 0 /\ json_end > json_start) THEN NoToolCall
        ELSE LET d == JsonLoads(SubSeq(t, json_start, json_end))
             IN  IF ~d.ok THEN NoToolCall
                 ELSE IF ~HasKey(d.val, "tool") THEN NoToolCall
                 ELSE [tool |-> GetKey(d.val, "tool"),
                       parameters |-> IF HasKey(d.val, "parameters")
                                      THEN GetKey(d.val, "parameters")
                                      ELSE JObj(<<>>)]

\* json_loads_called without the test of line 221.
json_loads_called_NoPrefilter(response_text) ==
    LET t == StripFence(Strip(response_text))
        json_start == Find(t, {"{"}, 1)
        json_end == RFind(t, {"}"})
    IN  json_start # 0 /\ json_end > json_start

\* Lines 221-228: json.loads is reached.
json_loads_called(response_text) ==
    LET t == StripFence(Strip(response_text))
        json_start == Find(t, {"{"}, 1)
        json_end == RFind(t, {"}"})
    IN  Find(t, {"\"tool\""}, 1) # 0 /\ json_start # 0 /\ json_end > json_start

\* The exception raised inside the try block of parse_tool_call, "" when
\* there is none.
try_raises(response_text) ==
    LET t == StripFence(Strip(response_text))
    IN  IF json_loads_called(response_text)
           /\ ~JsonLoads(SubSeq(t, Find(t, {"{"}, 1), RFind(t, {"}"}))).ok
        THEN "JSONDecodeError"
        ELSE ""

\* except_catches of a handler that catches nothing.
except_catches_Nothing(e) == FALSE

\* Line 235: 'except Exception' catches every exception of the try block.
except_catches(e) == TRUE

ToolNames(reg) == {reg[i].name : i \in 1..Len(reg)}

\* register that replaces the descriptor of a registered name.
register_Overwrite(reg, tool) ==
    IF tool.name \in ToolNames(reg)
    THEN [tools |-> [i \in 1..Len(reg) |-> IF reg[i].name = tool.name THEN tool ELSE reg[i]],
          raised |-> None]
    ELSE [tools |-> Append(reg, tool), raised |-> None]

\* ToolRegistry.register: the registry after the call and the ValueError it
\* raises, if any.
register(reg, tool) ==
    IF tool.name \in ToolNames(reg)
    THEN [tools |-> reg, raised |-> Some(<<"Tool '", tool.name, "' already registered">>)]
    ELSE [tools |-> Append(reg, tool), raised |-> None]

\* ToolRegistry.list_tools
list_tools(reg) == [i \in 1..Len(reg) |-> reg[i].name]

\* ToolRegistry.get
GetTool(reg, name) == reg[CHOOSE i \in 1..Len(reg) : reg[i].name = name]

\* ToolRegistry.has_tool: 'name in self._tools' hashes name first and raises
\* TypeError for a list or a dict.
has_tool_raises(reg, name) == ~Hashable(name)

has_tool(reg, name) == name.k = "str" /\ name.s \in ToolNames(reg)

\* ToolRegistry.format_tools_for_prompt
FormatParams(parameters) ==
    LET F[i \in 0..Len(parameters)] ==
            IF i = 0 THEN <<>>
            ELSE F[i - 1] \o <<"    - ", parameters[i][1], ": ", parameters[i][2], "\n">>
    IN  F[Len(parameters)]

ManifestInstruction ==
    << "To use a tool, respond with a JSON object in this exact format:\n",
       "{", "\"tool\"", ":", "\"tool_name\"", ",", "\"parameters\"", ":", "{...}", "}", "\n\n",
       "After receiving tool results, provide your final answer to the user." >>

\* format_tools_for_prompt that lists the tools last registered first.
format_tools_for_prompt_Reversed(reg) ==
    LET n == Len(reg)
        F[i \in 0..n] ==
            IF i = 0 THEN <<"You have access to the following tools:\n\n">>
            ELSE F[i - 1] \o <<"- ", reg[n + 1 - i].name, ": ", reg[n + 1 - i].description, "\n">>
                          \o <<"  Parameters:\n">>
                          \o FormatParams(reg[n + 1 - i].parameters) \o <<"\n">>
    IN  IF n = 0 THEN <<>> ELSE F[n] \o ManifestInstruction

format_tools_for_prompt(reg) ==
    LET F[i \in 0..Len(reg)] ==
            IF i = 0 THEN <<"You have access to the following tools:\n\n">>
            ELSE F[i - 1] \o <<"- ", reg[i].name, ": ", reg[i].description, "\n">>
                          \o <<"  Parameters:\n">>
                          \o FormatParams(reg[i].parameters) \o <<"\n">>
    IN  IF Len(reg) = 0 THEN <<>> ELSE F[Len(reg)] \o ManifestInstruction

(***************************************************************************)
(* OllamaClient: what the backend sends, and generate                      *)
(***************************************************************************)

\* OllamaConfig.model_name
MODEL_NAME == "phi3:mini"

\* OllamaConfig.timeout_first_request, OllamaConfig.timeout_tool_request
timeout_first_request == 120

timeout_tool_request == 150

NoneInt == [some |-> FALSE, v |-> 0]

SomeInt(n) == [some |-> TRUE, v |-> n]

\* One line of a response body. kind is "empty", "bad" (not valid JSON),
\* "scalar" (valid JSON that is not an object), "obj" (a JSON object, with
\* or without its "response" and "done" members) or "broken" (the transport
\* fails while this line is read).
Line(kind, has_response, response, has_done, done) ==
    [kind |-> kind, has_response |-> has_response, response |-> response,
     has_done |-> has_done, done |-> done]

ObjLine(response, done) == Line("obj", TRUE, response, TRUE, done)

EmptyLine == Line("empty", FALSE, <<>>, FALSE, FALSE)

BadLine == Line("bad", FALSE, <<>>, FALSE, FALSE)

ScalarLine == Line("scalar", FALSE, <<>>, FALSE, FALSE)

BrokenLine == Line("broken", FALSE, <<>>, FALSE, FALSE)

\* What session.post does: raises requests' Timeout (kind "timeout"),
\* ConnectionError (kind "connection_error") or RetryError (kind "exception",
\* with the status that used the retries up), or returns a response (kind
\* "response") with a status and a body.
Post(kind, status, body) == [kind |-> kind, status |-> status, body |-> body]

\* response.text: the raw body.
RawLine(l) ==
    CASE l.kind = "empty" -> <<"\n">>
      [] l.kind = "bad" -> <<"{not json", "\n">>
      [] l.kind = "scalar" -> <<"5", "\n">>
      [] l.kind = "broken" -> <<>>
      [] OTHER -> <<"{">>
                  \o (IF l.has_response THEN <<"\"response\":">> \o l.response ELSE <<>>)
                  \o (IF l.has_done
                      THEN <<"\"done\":", IF l.done THEN "true" ELSE "false">>
                      ELSE <<>>)
                  \o <<"}", "\n">>

RawText(body) ==
    LET F[i \in 0..Len(body)] == IF i = 0 THEN <<>> ELSE F[i - 1] \o RawLine(body[i])
    IN  F[Len(body)]

\* dict.get('response', '') and dict.get('done', False) of a decoded line.
GetResponse(l) == IF l.has_response THEN l.response ELSE <<>>

GetDone(l) == IF l.has_done THEN l.done ELSE FALSE

ModelResponse(text, success, error, status_code) ==
    [text |-> text, success |-> success, error |-> error,
     status_code |-> status_code, done |-> TRUE]

\* str(e) of the exceptions the generic handler catches.
ExcText(what) ==
    CASE what = "json" -> <<"Expecting value: line 1 column 1 (char 0)">>
      [] what = "attr" -> <<"'int' object has no attribute 'get'">>
      [] OTHER -> <<"Connection broken: IncompleteRead">>

\* str(e) of the RetryError raised when the retries of a status of the retry
\* list are used up.
RetryErrorText(status) ==
    <<"HTTPConnectionPool(host='localhost', port=11434): ",
      "Max retries exceeded with url: /api/generate ",
      "(Caused by ResponseError('too many ", ToString(status), " error responses'))">>

\* ModelNotFoundText that does not name the model.
ModelNotFoundText_NoName(model) ==
    <<"Model not found. ",
      "Run 'ollama list' to see installed models or ",
      "pull the model with: ollama pull">>

ModelNotFoundText(model) ==
    <<"Model '", model, "' not found. ",
      "Run 'ollama list' to see installed models or ",
      "pull the model with: ollama pull ", model>>

TimeoutText(timeout) ==
    <<"Request timed out after ", ToString(timeout), " seconds">>

CannotConnectText ==
    <<"Cannot connect to Ollama. Is it running? ",
      "Check with: systemctl status ollama">>

\* response.json() of a whole body: "dict", "other" (a value without .get)
\* or "invalid" (json raises).
BodyJson(body) ==
    LET ne == SelectSeq(body, LAMBDA l : l.kind # "empty")
    IN  IF Len(ne) = 1 /\ ne[1].kind = "obj" THEN "dict"
        ELSE IF Len(ne) = 1 /\ ne[1].kind = "scalar" THEN "other"
        ELSE "invalid"

\* Lines 160-169: the loop over response.iter_lines() of generate with
\* stream=True; [text, exc] where exc is "" or the exception that left it.
RECURSIVE CollectStream(_, _, _)
CollectStream(body, i, full_text) ==
    IF i > Len(body) THEN [text |-> full_text, exc |-> ""]
    ELSE LET l == body[i]
         IN  CASE l.kind = "broken" -> [text |-> full_text, exc |-> "read"]
               [] l.kind = "empty" -> CollectStream(body, i + 1, full_text)
               [] l.kind = "bad" -> CollectStream(body, i + 1, full_text)
               [] l.kind = "scalar" -> [text |-> full_text, exc |-> "attr"]
               [] OTHER ->
                    IF GetDone(l)
                    THEN [text |-> full_text \o GetResponse(l), exc |-> ""]
                    ELSE CollectStream(body, i + 1, full_text \o GetResponse(l))

\* generate that keeps the text a streamed call collected before its body
\* failed.
generate_KeepsPartialText(post, model, stream, timeout) ==
    IF post.kind = "response" /\ post.status = 200 /\ stream
    THEN LET c == CollectStream(post.body, 1, <<>>)
         IN  IF c.exc = ""
             THEN ModelResponse(c.text, TRUE, None, SomeInt(200))
             ELSE ModelResponse(c.text, FALSE, Some(ExcText(c.exc)), NoneInt)
    ELSE ModelResponse(<<>>, FALSE, Some(CannotConnectText), NoneInt)

\* OllamaClient.generate(prompt, model, stream, timeout), given what
\* session.post does with the request.
generate(post, model, stream, timeout) ==
    LET m == IF model.some THEN model.v ELSE MODEL_NAME
        t == IF timeout.some THEN timeout.v ELSE timeout_first_request
    IN  CASE post.kind = "timeout" ->
                ModelResponse(<<>>, FALSE, Some(TimeoutText(t)), NoneInt)
          [] post.kind = "connection_error" ->
                ModelResponse(<<>>, FALSE, Some(CannotConnectText), NoneInt)
          [] post.kind = "exception" ->
                ModelResponse(<<>>, FALSE, Some(RetryErrorText(post.status)), NoneInt)
          [] OTHER ->
                IF post.status = 200
                THEN IF stream
                     THEN LET c == CollectStream(post.body, 1, <<>>)
                          IN  IF c.exc = ""
                              THEN ModelResponse(c.text, TRUE, None, SomeInt(200))
                              ELSE ModelResponse(<<>>, FALSE, Some(ExcText(c.exc)), NoneInt)
                     ELSE LET j == BodyJson(post.body)
                              ne == SelectSeq(post.body, LAMBDA l : l.kind # "empty")
                          IN  IF j = "dict"
                              THEN ModelResponse(GetResponse(ne[1]), TRUE, None, SomeInt(200))
                              ELSE ModelResponse(<<>>, FALSE,
                                       Some(ExcText(IF j = "other" THEN "attr" ELSE "json")),
                                       NoneInt)
                ELSE IF post.status = 404
                THEN ModelResponse(<<>>, FALSE, Some(ModelNotFoundText(m)), SomeInt(404))
                ELSE ModelResponse(<<>>, FALSE,
                         Some(<<"HTTP ", ToString(post.status), ": ">> \o RawText(post.body)),
                         SomeInt(post.status))

(***************************************************************************)
(* Inputs of the model                                                     *)
(***************************************************************************)

\* Registries a ChatBot is constructed with: the default one, an empty one,
\* and the default one with a tool whose handler raises.
Registries ==
    { <<WebSearchToolEntry>>, <<>>, <<WebSearchToolEntry, BoomToolEntry>> }

UserTexts == { <<"weather in X">>, <<"Hello!">> }

\* The model argument of chat: None (the configured default) or a name.
ModelArgs == { None, Some("tinyllama") }

CallOf(tool, params) ==
    <<"{", "\"tool\"", ":">> \o tool
        \o <<",", " ", "\"parameters\"", ":">> \o params \o <<"}">>

RainQuery == <<"{", "\"query\"", ":", "\"rain\"", "}">>

\* Texts a model answers with.
ModelTexts ==
    { <<"Hi there!">>,
      <<"It's sunny">>,
      CallOf(<<"\"web_search\"">>, RainQuery),
      <<"Sure", " ", "<fence>json", "\n">> \o CallOf(<<"\"web_search\"">>, RainQuery)
          \o <<"\n", "<fence>", " ", "done", "}">>,
      <<"<fence>", "\n">> \o CallOf(<<"\"nope\"">>, RainQuery) \o <<"\n", "<fence>">>,
      <<"{", "\"tool\"", ":", "\"web_search\"", "}">>,
      CallOf(<<"\"web_search\"">>, <<"{", "\"name\"", ":", "\"rain\"", "}">>),
      CallOf(<<"\"web_search\"">>, <<"{", "\"query\"", ":", "\"rain\"", ",", "\"self\"", ":", "5", "}">>),
      CallOf(<<"\"web_search\"">>, <<"null">>),
      CallOf(<<"\"web_search\"">>, <<"[", "\"rain\"", "]">>),
      CallOf(<<"\"boom\"">>, RainQuery),
      CallOf(<<"\"nope\"">>, <<"{", "}">>),
      CallOf(<<"\"\"">>, RainQuery),
      CallOf(<<"5">>, RainQuery),
      CallOf(<<"0">>, RainQuery),
      CallOf(<<"null">>, RainQuery),
      CallOf(<<"true">>, RainQuery),
      CallOf(<<"[", "\"web_search\"", "]">>, RainQuery),
      CallOf(<<"[", "]">>, RainQuery),
      CallOf(<<"{", "\"name\"", ":", "\"web_search\"", "}">>, RainQuery),
      CallOf(<<"{", "}">>, RainQuery),
      <<"{", "\"tool\"", ":", "\"web_search\"">>,
      <<"{", "\"query\"", ":", "\"tool\"", "}">>,
      <<"use", " ", "\"tool\"", " ", "web_search">> }

\* What session.post does with a non-streamed request.
Replies ==
    { Post("timeout", 0, <<>>), Post("connection_error", 0, <<>>),
      Post("exception", 503, <<>>),
      Post("response", 404, <<BadLine>>), Post("response", 400, <<BadLine>>),
      Post("response", 200, <<BadLine>>), Post("response", 200, <<ScalarLine>>),
      Post("response", 200, <<Line("obj", FALSE, <<>>, TRUE, TRUE)>>) }
    \cup { Post("response", 200, <<ObjLine(r, TRUE)>>) : r \in ModelTexts }

\* What WebSearchTool.search returns.
SearchResults ==
    { <<"No results found.">>,
      <<"1. ", "Forecast", "\n   ", "Rain tomorrow">>,
      <<"Search error: ", "network unreachable">> }

\* The parameters of ToolRegistry.execute itself: a keyword of the same name
\* cannot be passed through **kwargs.
ExecuteOwnParameters == {"self", "name"}

\* The ways the call self.tools.execute(tool_name, **parameters) can end:
\* [execute, handler, raised, text], where execute and handler say whether
\* ToolRegistry.execute and the tool's function were entered.
CallEnd(execute, handler, raised, text) ==
    [execute |-> execute, handler |-> handler, raised |-> raised, text |-> text]

ExecuteEnds(reg, name, params) ==
    IF params.k # "obj"
    THEN {CallEnd(FALSE, FALSE, TRUE, <<"argument after ** must be a mapping">>)}
    ELSE IF DictKeys(params) \cap ExecuteOwnParameters # {}
    THEN {CallEnd(FALSE, FALSE, TRUE, <<"execute() got multiple values for argument">>)}
    ELSE IF name \notin ToolNames(reg)
    THEN {CallEnd(TRUE, FALSE, TRUE, <<"Tool '", name, "' not found in registry">>)}
    ELSE IF GetTool(reg, name).function = "raising"
    THEN {CallEnd(TRUE, TRUE, TRUE, <<"boom error">>)}
    ELSE IF "query" \in DictKeys(params) /\ DictKeys(params) \subseteq {"query", "max_results"}
    THEN {CallEnd(TRUE, TRUE, FALSE, r) : r \in SearchResults}
    ELSE {CallEnd(TRUE, TRUE, TRUE, <<"search() missing or unexpected argument">>)}

\* What a tool's function does when it is called with the keyword arguments
\* keys: [raised, text].
HandlerEnd(raised, text) == [raised |-> raised, text |-> text]

NoHandlerEnd == HandlerEnd(FALSE, <<>>)

HandlerEnds(function, keys) ==
    IF function = "raising"
    THEN {HandlerEnd(TRUE, <<"boom error">>)}
    ELSE IF function = "web_search_tool.search"
    THEN IF "query" \in keys /\ keys \subseteq {"query", "max_results"}
         THEN {HandlerEnd(FALSE, r) : r \in SearchResults}
         ELSE {HandlerEnd(TRUE, <<"search() missing or unexpected argument">>)}
    ELSE IF function = "local_search"
    THEN IF keys = {"q"}
         THEN {HandlerEnd(FALSE, <<"local: ", "nothing">>)}
         ELSE {HandlerEnd(TRUE, <<"local_search() missing or unexpected argument">>)}
    ELSE IF keys = {"text"}
         THEN {HandlerEnd(FALSE, <<"echo">>)}
         ELSE {HandlerEnd(TRUE, <<"echo() missing or unexpected argument">>)}

\* execute that turns a failure of the handler into a returned text.
execute_CatchesHandler(reg, name, end) ==
    IF name \notin ToolNames(reg)
    THEN [invoked |-> <<>>, raised |-> TRUE,
          value |-> <<"Tool '", name, "' not found in registry">>]
    ELSE [invoked |-> <<GetTool(reg, name).function>>, raised |-> FALSE,
          value |-> IF end.raised THEN <<"Error: ">> \o end.text ELSE end.text]

\* ToolRegistry.execute(name, **kwargs), entered: the handlers it invokes, in
\* order, whether an exception leaves it, and the value it returns or the
\* message of the exception. end is what the handler of name does.
execute(reg, name, end) ==
    IF name \notin ToolNames(reg)
    THEN [invoked |-> <<>>, raised |-> TRUE,
          value |-> <<"Tool '", name, "' not found in registry">>]
    ELSE [invoked |-> <<GetTool(reg, name).function>>, raised |-> end.raised,
          value |-> end.text]

(***************************************************************************)
(* search_processor: a text is a string of characters                      *)
(***************************************************************************)

\* s[i], counting from 1.
Char(s, i) == SubSeq(s, i, i)

\* s[:n] for n >= 0.
Prefix(s, n) == SubSeq(s, 1, IF n < Len(s) THEN n ELSE Len(s))

Whitespace == {" ", "\n", "\t"}

\* str.strip()
StripStr(s) ==
    LET idx == {i \in 1..Len(s) : Char(s, i) \notin Whitespace}
    IN  IF idx = {} THEN ""
        ELSE SubSeq(s, CHOOSE i \in idx : \A j \in idx : i <= j,
                       CHOOSE i \in idx : \A j \in idx : j <= i)

\* s[lo..hi] with every old replaced by new, by halves.
RECURSIVE ReplaceRange(_, _, _, _, _)
ReplaceRange(s, old, new, lo, hi) ==
    IF lo > hi THEN ""
    ELSE IF lo = hi THEN (IF Char(s, lo) = old THEN new ELSE Char(s, lo))
    ELSE LET mid == (lo + hi) \div 2
         IN  ReplaceRange(s, old, new, lo, mid) \o ReplaceRange(s, old, new, mid + 1, hi)

\* str.replace(old, new) for single characters.
ReplaceChar(s, old, new) == ReplaceRange(s, old, new, 1, Len(s))

\* str.split(sep) for a single character: the pieces between consecutive
\* occurrences of sep, empty pieces included.
SplitOn(s, sep) ==
    LET at == {i \in 1..Len(s) : Char(s, i) = sep}
        cut == [k \in 0..(Cardinality(at) + 1) |->
                   IF k = 0 THEN 0
                   ELSE IF k = Cardinality(at) + 1 THEN Len(s) + 1
                   ELSE CHOOSE p \in at : Cardinality({q \in at : q < p}) = k - 1]
    IN  [k \in 1..(Cardinality(at) + 1) |-> SubSeq(s, cut[k - 1] + 1, cut[k] - 1)]

UpperCase == "ABCDEFGHIJKLMNOPQRSTUVWXYZ"

LowerCase == "abcdefghijklmnopqrstuvwxyz"

LowerChar(c) ==
    IF \E k \in 1..Len(UpperCase) : Char(UpperCase, k) = c
    THEN Char(LowerCase, CHOOSE k \in 1..Len(UpperCase) : Char(UpperCase, k) = c)
    ELSE c

\* s[lo..hi] in lower case, by halves.
RECURSIVE LowerRange(_, _, _)
LowerRange(s, lo, hi) ==
    IF lo > hi THEN ""
    ELSE IF lo = hi THEN LowerChar(Char(s, lo))
    ELSE LET mid == (lo + hi) \div 2
         IN  LowerRange(s, lo, mid) \o LowerRange(s, mid + 1, hi)

\* str.lower()
Lower(s) == LowerRange(s, 1, Len(s))

\* set(s.split()): the maximal runs of characters of s that are not
\* whitespace.
WordSet(s) ==
    LET n == Len(s)
        starts == {i \in 1..n : /\ Char(s, i) \notin Whitespace
                                /\ (i = 1 \/ Char(s, i - 1) \in Whitespace)}
        ends == {j \in 1..n : /\ Char(s, j) \notin Whitespace
                              /\ (j = n \/ Char(s, j + 1) \in Whitespace)}
    IN  { SubSeq(s, i, CHOOSE j \in ends : j >= i /\ \A e \in ends : e >= i => j <= e) :
              i \in starts }

\* sep.join(parts)
Join(parts, sep) ==
    LET F[i \in 0..Len(parts)] ==
            IF i = 0 THEN ""
            ELSE IF i = 1 THEN parts[1]
            ELSE F[i - 1] \o sep \o parts[i]
    IN  F[Len(parts)]

\* The length a stripped sentence must exceed to be kept.
SentenceMinLength == 10

\* Lines 62-63: the sentences of a text.
Sentences(text) ==
    LET parts == SplitOn(ReplaceChar(ReplaceChar(text, "!", "."), "?", "."), ".")
        kept == SelectSeq(parts, LAMBDA s : Len(StripStr(s)) > SentenceMinLength)
    IN  [i \in 1..Len(kept) |-> StripStr(kept[i])]

\* Lines 69, 73-74: the number of words a sentence shares with the query.
Score(query, sentence) ==
    Cardinality(WordSet(Lower(query)) \cap WordSet(Lower(sentence)))

\* Line 78: list.sort(reverse=True, key=score) is stable, so sentences of
\* equal score keep their order.
SortByScore(query, sentences) ==
    LET n == Len(sentences)
        scores == [i \in 1..n |-> Score(query, sentences[i])]
        pos == [i \in 1..n |->
                   1 + Cardinality({j \in 1..n :
                           scores[j] > scores[i] \/ (scores[j] = scores[i] /\ j < i)})]
    IN  [k \in 1..n |-> sentences[CHOOSE i \in 1..n : pos[i] = k]]

\* Lines 81-89: sentences are taken in order while the sum of their lengths
\* stays within max_length; the loop ends at the first that does not fit.
TakeWithin(scored, max_length) ==
    LET F[k \in 0..Len(scored)] ==
            IF k = 0 THEN [taken |-> <<>>, current_length |-> 0, stopped |-> FALSE]
            ELSE LET loop == F[k - 1]
                 IN  IF loop.stopped THEN loop
                     ELSE IF loop.current_length + Len(scored[k]) <= max_length
                     THEN [taken |-> Append(loop.taken, scored[k]),
                           current_length |-> loop.current_length + Len(scored[k]),
                           stopped |-> FALSE]
                     ELSE [loop EXCEPT !.stopped = TRUE]
    IN  F[Len(scored)].taken

\* ExtractionProcessor.process
extraction_process(text, query, max_length) ==
    LET sentences == Sentences(text)
        taken == TakeWithin(SortByScore(query, sentences), max_length)
    IN  IF Len(sentences) = 0 THEN Prefix(text, max_length)
        ELSE IF Len(taken) = 0 THEN Prefix(sentences[1], max_length) \o "..."
        ELSE Join(taken, ". ") \o "."

\* s.rsplit(' ', 1)[0]
RSplitSpace(s) ==
    LET idx == {i \in 1..Len(s) : Char(s, i) = " "}
    IN  IF idx = {} THEN s
        ELSE SubSeq(s, 1, (CHOOSE i \in idx : \A j \in idx : j <= i) - 1)

\* simple_process that also cuts a text of exactly max_length characters.
simple_process_CutsAtLimit(text, max_length) ==
    IF Len(text) >= max_length
    THEN RSplitSpace(Prefix(text, max_length)) \o "..."
    ELSE text

\* SimpleProcessor.process
simple_process(text, max_length) ==
    IF Len(text) > max_length
    THEN RSplitSpace(Prefix(text, max_length)) \o "..."
    ELSE text

\* What requests.post of SmallModelProcessor.process does: an exception, or
\* a response with a status and a body that response.json() decodes or not.
SummaryReply(kind, status, json_ok, val) ==
    [kind |-> kind, status |-> status, json_ok |-> json_ok, val |-> val]

NoSummaryReply == SummaryReply("none", 0, FALSE, JNull)

\* The length of the fallback of SmallModelProcessor.
FallbackLength == 200

\* Lines 132-147: the try block: the exception raised in it, "" when none,
\* and the value it returns.
SummaryTry(reply, text) ==
    IF reply.kind # "response" THEN [exc |-> reply.kind, value |-> ""]
    ELSE IF reply.status # 200
    THEN [exc |-> "", value |-> Prefix(text, FallbackLength) \o "..."]
    ELSE IF ~reply.json_ok THEN [exc |-> "JSONDecodeError", value |-> ""]
    ELSE IF reply.val.k # "obj" THEN [exc |-> "AttributeError", value |-> ""]
    ELSE [exc |-> "",
          value |-> IF HasKey(reply.val, "response")
                    THEN GetKey(reply.val, "response").s
                    ELSE Prefix(text, FallbackLength)]

\* An except clause that handles the exceptions of requests only.
SummaryCatches_RequestsOnly(e) == e \in {"Timeout", "ConnectionError"}

\* Line 149: 'except Exception'.
SummaryCatches(e) == e \in {"Timeout", "ConnectionError", "JSONDecodeError", "AttributeError"}

\* SmallModelProcessor.process: [raised, out].
small_model_process(reply, text) ==
    LET t == SummaryTry(reply, text)
    IN  IF t.exc = "" THEN [raised |-> "", out |-> t.value]
        ELSE IF SummaryCatches(t.exc)
        THEN [raised |-> "", out |-> Prefix(text, FallbackLength) \o "..."]
        ELSE [raised |-> t.exc, out |-> ""]

(***************************************************************************)
(* State                                                                   *)
(***************************************************************************)

VARIABLES
    \* ChatBot.chat, one turn
    pc,             \* "idle", "first", "tool", "second", "done", "raised"
    tools,          \* ToolRegistry._tools, in registration order
    prompt,         \* the user's text
    use_tools,
    model,
    system_prompt,
    calls,          \* the client.generate calls issued: [prompt, model, timeout]
    response,       \* the first ModelResponse
    tool_name,
    parameters,
    tool_end,       \* how the call of the tool ended
    tool_result,
    final_response, \* the second ModelResponse
    answer,         \* the string chat returns
    exc,            \* the exception chat raises
    trace,          \* the collaborators entered, in order
    ui_config,      \* config.ui: [show_loading, show_timing]
    show_loading,   \* the resolved show_loading of the call
    show_timing,    \* the resolved show_timing of the call
    loaders,        \* the LoadingIndicators the call created, in order
    timing,         \* the ChatTiming of the call
    now,            \* what time.time() returned last
    total_start,    \* time.time() at the start of the call
    \* OllamaClient.generate_stream, one call
    spc,            \* "start", "lines", "closed"
    post,           \* what session.post did with the request
    stream_model,   \* the model argument of generate_stream
    next_line,      \* index of the next body line iter_lines delivers
    chunks,         \* the StreamChunks yielded so far
    \* One call of OllamaClient.generate or generate_stream, request by request
    cpc,            \* "idle", "sending", "returned", "streaming"
    method,         \* "generate" or "generate_stream"
    call_model,     \* the model argument
    call_stream,    \* the stream argument
    call_timeout,   \* the timeout argument
    retries_left,   \* Retry.total of the retry state of the request
    sent,           \* what became of each request sent, in order
    call_result,    \* the ModelResponse generate returns
    \* ToolRegistry: the last register or execute call
    reg_op,         \* "none", "register" or "execute"
    reg_before,     \* _tools before the last register call
    reg_arg,        \* the Tool passed to it
    reg_raised,     \* the ValueError it raised, if any
    exec_name,      \* the name passed to the last execute
    exec_kwargs,    \* the keywords passed to it
    handler_end,    \* what the handler did, if one was invoked
    exec_end,       \* how execute ended: [invoked, raised, value]
    \* ToolRegistry.parse_tool_call, one call
    ppc,            \* "none" or "parsed"
    parse_input,    \* the text passed to parse_tool_call
    parse_result,   \* what parse_tool_call returned
    decoder_calls,  \* the json.loads calls it made
    parse_exc,      \* the exception that left it, "" when it returned
    \* A SearchResultProcessor and its process calls
    proc,           \* "none", "extraction", "simple" or "small_model"
    proc_text,      \* the text of the search result
    proc_query,     \* the query
    proc_max_length,\* max_length of the processor
    proc_reply,     \* what the secondary model call did
    proc_input,     \* the text passed to the last process call
    proc_out,       \* what the last process call returned
    proc_raised,    \* the exception that left it, "" when it returned
    proc_calls,     \* the number of process calls made
    \* ChatBot.interactive_chat
    session,        \* "off", "prompting", "in_turn" or "ended"
    session_model,  \* the model passed to every chat call
    last_input,     \* the line input() returned last
    last_printed,   \* what was printed last
    end_reason,     \* why the loop ended: "quit", "interrupt" or "exception"
    turns,          \* the number of chat calls that returned
    \* WebSearchTool and the configuration it was built from
    cfg_method,     \* config.search.processing_method
    bot,            \* "none" or "built": whether ChatBot() was constructed
    tool_processor, \* the processor WebSearchTool.__init__ created
    search_cfg,     \* config.search.processing_method when search last ran
    search_by,      \* the processor that processed the last search's bodies
    search_body,    \* the body of the last search's result
    search_query,   \* the query of the last search
    search_reply,   \* what the summary model's endpoint did in the last search
    search_out,     \* the processed body of the last search
    \* ToolRegistry, the operations that read it
    reg_value,      \* what the last get, has_tool, list_tools,
                    \* format_tools_for_prompt or parse_tool_call returned
    \* start.chat, one turn of the single-file script
    script_pc,      \* "idle", "first", "tool", "second" or "done"
    script_prompt,  \* the user's text
    script_use_tools,
    script_loader,  \* "none", "running" or "stopped": the last indicator
    script_posts,   \* the prompts of the requests.post calls issued
    script_reply,   \* what the first requests.post did
    script_text,    \* model_response: the text of the first response
    script_call,    \* what parse_tool_call returned
    script_tool_end,\* how the call of the tool function ended
    script_final,   \* what the second requests.post did
    script_answer,  \* the string chat returns
    \* ui.LoadingIndicator and its animation threads
    li_running,     \* self.is_running
    li_thread,      \* self.thread: 0 for None, else the number of the thread
    li_threads,     \* where each animation thread created so far is in _animate
    li_caller,      \* the caller: "outside", "starting" or "joining"
    li_returned,    \* "none", or the call that returned last: "start" or "stop"
    li_late_write,  \* a thread wrote after stop had returned
    li_writes,      \* the number of writes to the terminal
    li_calls        \* the number of start and stop calls made

chatVars ==
    <<pc, tools, prompt, use_tools, model, system_prompt, calls, response,
      tool_name, parameters, tool_end, tool_result, final_response, answer,
      exc, trace, ui_config, show_loading, show_timing, loaders, timing, now,
      total_start>>

streamVars == <<spc, post, stream_model, next_line, chunks>>

clientVars ==
    <<cpc, method, call_model, call_stream, call_timeout, retries_left, sent,
      call_result>>

registryVars ==
    <<reg_op, reg_before, reg_arg, reg_raised, exec_name, exec_kwargs,
      handler_end, exec_end>>

parseVars == <<ppc, parse_input, parse_result, decoder_calls, parse_exc>>

processorVars ==
    <<proc, proc_text, proc_query, proc_max_length, proc_reply, proc_input,
      proc_out, proc_raised, proc_calls>>

sessionVars ==
    <<session, session_model, last_input, last_printed, end_reason, turns>>

searchVars ==
    <<cfg_method, bot, tool_processor, search_cfg, search_by, search_body,
      search_query, search_reply, search_out>>

lookupVars == <<reg_value>>

scriptVars ==
    <<script_pc, script_prompt, script_use_tools, script_loader, script_posts,
      script_reply, script_text, script_call, script_tool_end, script_final,
      script_answer>>

loaderVars ==
    <<li_running, li_thread, li_threads, li_caller, li_returned, li_late_write,
      li_writes, li_calls>>

extraVars == <<searchVars, lookupVars, scriptVars, loaderVars>>

OtherThanLookup == <<searchVars, scriptVars, loaderVars>>

vars ==
    <<chatVars, streamVars, clientVars, registryVars, parseVars, processorVars,
      sessionVars, extraVars>>

NoResponse == ModelResponse(<<>>, FALSE, None, NoneInt)

\* An Optional[bool] argument.
NoneBool == [some |-> FALSE, v |-> FALSE]

SomeBool(b) == [some |-> TRUE, v |-> b]

\* UIConfig: show_timing and show_loading default to True.
UIConfig(loading, timings) == [show_loading |-> loading, show_timing |-> timings]

DefaultUIConfig == UIConfig(TRUE, TRUE)

\* ChatTiming(): every duration starts at 0.0.
ChatTiming ==
    [initial_thinking |-> 0, tool_execution |-> 0, final_answer |-> 0, total |-> 0]

\* LoadingIndicator(message): not running, no thread. thread is "none",
\* "alive" or "joined".
LoadingIndicator(message) ==
    [message |-> message, is_running |-> FALSE, thread |-> "none"]

\* LoadingIndicator.start: the flag is set and the animation thread runs.
LoaderStart(l) == [l EXCEPT !.is_running = TRUE, !.thread = "alive"]

\* LoadingIndicator.stop: the flag is cleared and the thread, if there is
\* one, is joined.
LoaderStop(l) ==
    [l EXCEPT !.is_running = FALSE,
              !.thread = IF @ = "none" THEN "none" ELSE "joined"]

\* 'if loader: loader.stop()': loader is the indicator created last, None
\* when none was created.
StopLoader(ls) ==
    IF ls = <<>> THEN ls ELSE [ls EXCEPT ![Len(ls)] = LoaderStop(@)]

NoPost == Post("none", 0, <<>>)

NoCallEnd == CallEnd(FALSE, FALSE, FALSE, <<>>)

ChatIdle ==
    /\ pc = "idle"
    /\ prompt = <<>>
    /\ use_tools = FALSE
    /\ model = None
    /\ system_prompt = <<>>
    /\ calls = <<>>
    /\ response = NoResponse
    /\ tool_name = JNull
    /\ parameters = JNull
    /\ tool_end = NoCallEnd
    /\ tool_result = <<>>
    /\ final_response = NoResponse
    /\ answer = <<>>
    /\ exc = <<>>
    /\ trace = <<>>
    /\ show_loading = FALSE
    /\ show_timing = FALSE
    /\ loaders = <<>>
    /\ timing = ChatTiming
    /\ now = 0
    /\ total_start = 0

StreamIdle ==
    /\ spc = "start"
    /\ post = NoPost
    /\ stream_model = None
    /\ next_line = 1
    /\ chunks = <<>>

RegistryIdle ==
    /\ reg_op = "none"
    /\ reg_before = <<>>
    /\ reg_arg = Tool("", "", <<>>, "")
    /\ reg_raised = None
    /\ exec_name = ""
    /\ exec_kwargs = {}
    /\ handler_end = NoHandlerEnd
    /\ exec_end = [invoked |-> <<>>, raised |-> FALSE, value |-> <<>>]

ParseIdle ==
    /\ ppc = "none"
    /\ parse_result = NoToolCall
    /\ decoder_calls = 0
    /\ parse_exc = ""

ProcessorIdle ==
    /\ proc = "none"
    /\ proc_reply = NoSummaryReply
    /\ proc_input = ""
    /\ proc_out = ""
    /\ proc_raised = ""
    /\ proc_calls = 0

NoProcessorInput ==
    /\ proc_text = ""
    /\ proc_query = ""
    /\ proc_max_length = 0

SessionIdle ==
    /\ session = "off"
    /\ session_model = None
    /\ last_input = ""
    /\ last_printed = <<>>
    /\ end_reason = ""
    /\ turns = 0

\* config.py line 77: the processing method a fresh Config holds; no ChatBot
\* has been constructed and no search has run.
SearchIdle ==
    /\ cfg_method = "extraction"
    /\ bot = "none"
    /\ tool_processor = "none"
    /\ search_cfg = "none"
    /\ search_by = "none"
    /\ search_body = ""
    /\ search_query = ""
    /\ search_reply = NoSummaryReply
    /\ search_out = ""

LookupIdle == reg_value = <<>>

\* No requests.post was issued.
NoScriptReply == [kind |-> "none", status |-> 0, body |-> <<>>]

\* How the call of the tool function ended: it raised the exception of the
\* text, or returned the text.
ScriptToolEnd(called, raised, text) == [called |-> called, raised |-> raised, text |-> text]

ScriptIdle ==
    /\ script_pc = "idle"
    /\ script_prompt = <<>>
    /\ script_use_tools = FALSE
    /\ script_loader = "none"
    /\ script_posts = <<>>
    /\ script_reply = NoScriptReply
    /\ script_text = <<>>
    /\ script_call = [tool |-> JNull, parameters |-> JNull]
    /\ script_tool_end = ScriptToolEnd(FALSE, FALSE, <<>>)
    /\ script_final = NoScriptReply
    /\ script_answer = <<>>

\* LoadingIndicator.__init__: the flag is false and there is no thread.
LoaderIdle ==
    /\ li_running = FALSE
    /\ li_thread = 0
    /\ li_threads = <<>>
    /\ li_caller = "outside"
    /\ li_returned = "none"
    /\ li_late_write = FALSE
    /\ li_writes = 0
    /\ li_calls = 0

ExtraIdle ==
    /\ SearchIdle
    /\ LookupIdle
    /\ ScriptIdle
    /\ LoaderIdle

ClientIdle ==
    /\ cpc = "idle"
    /\ method = "generate"
    /\ call_model = None
    /\ call_stream = FALSE
    /\ call_timeout = NoneInt
    /\ retries_left = 0
    /\ sent = <<>>
    /\ call_result = NoResponse

(***************************************************************************)
(* ChatBot.chat                                                            *)
(***************************************************************************)

GenerateCall(p, m, timeout) == [prompt |-> p, model |-> m, timeout |-> timeout]

\* FirstPrompt with the manifest prepended whether or not tools are enabled.
FirstPrompt_AlwaysManifest(sys, p, ut) ==
    sys \o <<"\n\n", "User: ">> \o p \o <<"\n\n", "Assistant:">>

\* Lines 86-91: the first-stage prompt.
FirstPrompt(sys, p, ut) ==
    IF ut THEN sys \o <<"\n\n", "User: ">> \o p \o <<"\n\n", "Assistant:">>
    ELSE p

\* FollowUpPrompt without the first-stage response.
FollowUpPrompt_NoFirstResponse(sys, p, model_response, result) ==
    sys \o <<"\n\n", "User: ">> \o p
        \o <<"\n\n", "Tool Result:\n">> \o result
        \o <<"\n\n", "Now provide your final answer to the user based on the tool results:">>

\* Lines 139-145: the follow-up prompt.
FollowUpPrompt(sys, p, model_response, result) ==
    sys \o <<"\n\n", "User: ">> \o p \o <<"\n\n", "Assistant: ">> \o model_response
        \o <<"\n\n", "Tool Result:\n">> \o result
        \o <<"\n\n", "Now provide your final answer to the user based on the tool results:">>

\* ErrorAnswer returning the response's text, which is empty on failure.
ErrorAnswer_Text(r) == r.text

\* Lines 115 and 166: the answer of a failed stage.
ErrorAnswer(r) == <<"Error: ">> \o FormatOpt(r.error)

\* ToolErrorText without the prefix.
ToolErrorText_Bare(e) == e

\* Lines 134-136: the text a raising tool call leaves as its result.
ToolErrorText(e) == <<"Tool execution error: ">> \o e

\* Line 123: whether the tool branch is taken, "raise" when has_tool raises.
ToolBranch(reg, name) ==
    IF ~Truthy(name) THEN "no"
    ELSE IF has_tool_raises(reg, name) THEN "raise"
    ELSE IF has_tool(reg, name) THEN "yes"
    ELSE "no"

\* Stage1 without the early return of line 115: a failed first stage goes on
\* to the tool stage.
Stage1_FallThrough(reg, ut, r) ==
    IF ~ut THEN "plain"
    ELSE LET branch == ToolBranch(reg, parse_tool_call(r.text).tool)
         IN  IF branch = "yes" \/ ~r.success THEN "tool"
             ELSE IF branch = "raise" THEN "raise"
             ELSE "plain"

\* Lines 113-123: where the turn goes once the first generate has returned
\* r: "error" (line 115), "tool" (line 124), "raise", or "plain" (line 187).
Stage1(reg, ut, r) ==
    IF ~r.success THEN "error"
    ELSE IF ~ut THEN "plain"
    ELSE LET branch == ToolBranch(reg, parse_tool_call(r.text).tool)
         IN  IF branch = "yes" THEN "tool"
             ELSE IF branch = "raise" THEN "raise"
             ELSE "plain"

\* FinalAnswer that does not hand a further tool call back as the answer.
FinalAnswer_ParsesAgain(r) ==
    IF ~r.success THEN ErrorAnswer(r)
    ELSE IF Truthy(parse_tool_call(r.text).tool) THEN <<"Using tool again">>
    ELSE r.text

\* Lines 165-168: the answer once the second generate has returned r.
FinalAnswer(r) == IF r.success THEN r.text ELSE ErrorAnswer(r)

\* Longest time a generate call or a tool call takes, in clock ticks.
MaxDelay == 1

Delays == 0..MaxDelay

\* The show_loading and show_timing arguments of chat.
ShowArgs == { NoneBool, SomeBool(TRUE), SomeBool(FALSE) }

\* Lines 77-107: chat(prompt, model, use_tools, show_loading, show_timing)
\* builds the first prompt, starts the indicator and issues the first
\* generate.
ChatStart(p, m, ut, sl, st) ==
    /\ pc = "idle"
    /\ show_loading' = IF sl.some THEN sl.v ELSE ui_config.show_loading
    /\ show_timing' = IF st.some THEN st.v ELSE ui_config.show_timing
    /\ timing' = ChatTiming
    /\ total_start' = now
    /\ loaders' = IF show_loading'
                  THEN <<LoaderStart(LoadingIndicator("AI is thinking"))>>
                  ELSE <<>>
    /\ UNCHANGED <<ui_config, now>>
    /\ prompt' = p
    /\ model' = m
    /\ use_tools' = ut
    /\ system_prompt' = IF ut THEN format_tools_for_prompt(tools) ELSE <<>>
    /\ calls' = <<GenerateCall(FirstPrompt(system_prompt', p, ut), m, timeout_first_request)>>
    /\ trace' = (IF ut THEN <<"format_tools_for_prompt">> ELSE <<>>) \o <<"generate">>
    /\ pc' = "first"
    /\ UNCHANGED <<tools, response, tool_name, parameters, tool_end,
                   tool_result, final_response, answer, exc>>

\* Lines 108-123 and 182-187: the first generate returns.
FirstResponse(reply, d) ==
    /\ pc = "first"
    /\ now' = now + d
    /\ loaders' = StopLoader(loaders)
    /\ UNCHANGED <<ui_config, show_loading, show_timing, total_start>>
    /\ LET r == generate(reply, model, FALSE, Some(timeout_first_request))
           call == parse_tool_call(r.text)
           stage == Stage1(tools, use_tools, r)
           parsed == r.success /\ use_tools
       IN  /\ response' = r
           /\ timing' = [timing EXCEPT
                             !.initial_thinking = now' - now,
                             !.total = IF stage = "plain" /\ show_timing
                                       THEN now' - total_start ELSE @]
           /\ tool_name' = IF parsed THEN call.tool ELSE tool_name
           /\ parameters' = IF parsed THEN call.parameters ELSE parameters
           /\ trace' = IF parsed
                       THEN trace \o <<"parse_tool_call">>
                                \o (IF Truthy(call.tool) THEN <<"has_tool">> ELSE <<>>)
                       ELSE trace
           /\ CASE stage = "error" ->
                     /\ pc' = "done"
                     /\ answer' = ErrorAnswer(r)
                     /\ UNCHANGED exc
                [] stage = "tool" ->
                     /\ pc' = "tool"
                     /\ UNCHANGED <<answer, exc>>
                [] stage = "raise" ->
                     /\ pc' = "raised"
                     /\ exc' = <<"unhashable type">>
                     /\ UNCHANGED answer
                [] OTHER ->
                     /\ pc' = "done"
                     /\ answer' = r.text
                     /\ UNCHANGED exc
    /\ UNCHANGED <<tools, prompt, use_tools, model, system_prompt, calls,
                   tool_end, tool_result, final_response>>

\* Lines 125-159: the tool call, then the second generate is issued.
ToolExecute(end, d) ==
    /\ pc = "tool"
    /\ end \in ExecuteEnds(tools, tool_name.s, parameters)
    /\ now' = now + d
    /\ timing' = [timing EXCEPT !.tool_execution = now' - now]
    /\ loaders' = IF show_loading
                  THEN Append(loaders, LoaderStart(LoadingIndicator("Generating final answer")))
                  ELSE loaders
    /\ UNCHANGED <<ui_config, show_loading, show_timing, total_start>>
    /\ tool_end' = end
    /\ tool_result' = IF end.raised THEN ToolErrorText(end.text) ELSE end.text
    /\ trace' = trace \o (IF end.execute THEN <<"execute">> ELSE <<>>)
                       \o (IF end.handler THEN <<"handler">> ELSE <<>>)
                       \o <<"tool_done", "generate">>
    /\ calls' = Append(calls,
                    GenerateCall(FollowUpPrompt(system_prompt, prompt, response.text, tool_result'),
                                 model, timeout_tool_request))
    /\ pc' = "second"
    /\ UNCHANGED <<tools, prompt, use_tools, model, system_prompt, response,
                   tool_name, parameters, final_response, answer, exc>>

\* Lines 160-180: the second generate returns.
SecondResponse(reply, d) ==
    /\ pc = "second"
    /\ now' = now + d
    /\ loaders' = StopLoader(loaders)
    /\ UNCHANGED <<ui_config, show_loading, show_timing, total_start>>
    /\ LET r == generate(reply, model, FALSE, Some(timeout_tool_request))
       IN  /\ final_response' = r
           /\ answer' = FinalAnswer(r)
           /\ timing' = [timing EXCEPT
                             !.final_answer = now' - now,
                             !.total = IF r.success /\ show_timing
                                       THEN now' - total_start ELSE @]
    /\ pc' = "done"
    /\ UNCHANGED <<tools, prompt, use_tools, model, system_prompt, calls,
                   response, tool_name, parameters, tool_end, tool_result, exc,
                   trace>>

(***************************************************************************)
(* OllamaClient.generate_stream                                            *)
(***************************************************************************)

\* Longest response body of the model, in lines.
MaxLines == 3

\* The lines a streamed body is made of.
StreamLines ==
    { EmptyLine, BadLine, ScalarLine, BrokenLine,
      ObjLine(<<"Hel">>, FALSE), ObjLine(<<"lo">>, FALSE), ObjLine(<<"!">>, TRUE),
      ObjLine(<<>>, TRUE),
      Line("obj", FALSE, <<>>, FALSE, FALSE),
      Line("obj", TRUE, <<"x">>, FALSE, FALSE) }

Bodies == UNION { [1..n -> StreamLines] : n \in 0..MaxLines }

\* What session.post does with a streamed request.
StreamReplies ==
    { Post("timeout", 0, <<>>), Post("connection_error", 0, <<>>),
      Post("exception", 503, <<>>),
      Post("response", 404, <<BadLine>>), Post("response", 400, <<BadLine>>) }
    \cup { Post("response", 200, b) : b \in Bodies }

StreamChunk(text, done, error) == [text |-> text, done |-> done, error |-> error]

JsonDecodeErrorText == <<"JSON decode error: ", "Expecting value: line 1 column 1 (char 0)">>

\* Lines 301-328: the single chunk of a request that got no 200 response.
FailureChunk(p, m, timeout) ==
    CASE p.kind = "timeout" -> StreamChunk(<<>>, TRUE, Some(TimeoutText(timeout)))
      [] p.kind = "connection_error" -> StreamChunk(<<>>, TRUE, Some(CannotConnectText))
      [] p.kind = "exception" -> StreamChunk(<<>>, TRUE, Some(RetryErrorText(p.status)))
      [] p.status = 404 -> StreamChunk(<<>>, TRUE, Some(ModelNotFoundText(m)))
      [] OTHER -> StreamChunk(<<>>, TRUE,
                      Some(<<"HTTP ", ToString(p.status), ": ">> \o RawText(p.body)))

\* LineStep without the break of line 294: a done=true line does not end the
\* loop.
LineStep_NoBreak(l) ==
    CASE l.kind = "empty" ->
            [yield |-> FALSE, chunk |-> StreamChunk(<<>>, FALSE, None), stop |-> FALSE]
      [] l.kind = "bad" ->
            [yield |-> TRUE, chunk |-> StreamChunk(<<>>, FALSE, Some(JsonDecodeErrorText)),
             stop |-> FALSE]
      [] l.kind = "scalar" ->
            [yield |-> TRUE, chunk |-> StreamChunk(<<>>, TRUE, Some(ExcText("attr"))),
             stop |-> TRUE]
      [] l.kind = "broken" ->
            [yield |-> TRUE, chunk |-> StreamChunk(<<>>, TRUE, Some(ExcText("read"))),
             stop |-> TRUE]
      [] OTHER ->
            [yield |-> TRUE, chunk |-> StreamChunk(GetResponse(l), GetDone(l), None),
             stop |-> FALSE]

\* LineStep yielding the done=true line without its text.
LineStep_DoneWithoutText(l) ==
    CASE l.kind = "empty" ->
            [yield |-> FALSE, chunk |-> StreamChunk(<<>>, FALSE, None), stop |-> FALSE]
      [] l.kind = "bad" ->
            [yield |-> TRUE, chunk |-> StreamChunk(<<>>, FALSE, Some(JsonDecodeErrorText)),
             stop |-> FALSE]
      [] l.kind = "scalar" ->
            [yield |-> TRUE, chunk |-> StreamChunk(<<>>, TRUE, Some(ExcText("attr"))),
             stop |-> TRUE]
      [] l.kind = "broken" ->
            [yield |-> TRUE, chunk |-> StreamChunk(<<>>, TRUE, Some(ExcText("read"))),
             stop |-> TRUE]
      [] OTHER ->
            [yield |-> TRUE,
             chunk |-> StreamChunk(IF GetDone(l) THEN <<>> ELSE GetResponse(l), GetDone(l), None),
             stop |-> GetDone(l)]

\* Lines 285-300 and 327-328: what one delivered line makes the generator
\* do: [yield, chunk, stop] (yield a chunk or not, leave the loop or not).
LineStep(l) ==
    CASE l.kind = "empty" ->
            [yield |-> FALSE, chunk |-> StreamChunk(<<>>, FALSE, None), stop |-> FALSE]
      [] l.kind = "bad" ->
            [yield |-> TRUE, chunk |-> StreamChunk(<<>>, FALSE, Some(JsonDecodeErrorText)),
             stop |-> FALSE]
      [] l.kind = "scalar" ->
            [yield |-> TRUE, chunk |-> StreamChunk(<<>>, TRUE, Some(ExcText("attr"))),
             stop |-> TRUE]
      [] l.kind = "broken" ->
            [yield |-> TRUE, chunk |-> StreamChunk(<<>>, TRUE, Some(ExcText("read"))),
             stop |-> TRUE]
      [] OTHER ->
            [yield |-> TRUE, chunk |-> StreamChunk(GetResponse(l), GetDone(l), None),
             stop |-> GetDone(l)]

\* Lines 252-283 and 301-328: generate_stream sends the request; without a
\* 200 response it yields one chunk and ends.
StreamOpen(p, m) ==
    /\ spc = "start"
    /\ post' = p
    /\ stream_model' = m
    /\ IF p.kind = "response" /\ p.status = 200
       THEN /\ spc' = "lines"
            /\ UNCHANGED chunks
       ELSE /\ spc' = "closed"
            /\ chunks' = <<FailureChunk(p, IF m.some THEN m.v ELSE MODEL_NAME,
                                        timeout_first_request)>>
    /\ UNCHANGED next_line

\* Lines 284-300: the next line of the body arrives.
StreamLine ==
    /\ spc = "lines"
    /\ next_line <= Len(post.body)
    /\ LET step == LineStep(post.body[next_line])
       IN  /\ chunks' = IF step.yield THEN Append(chunks, step.chunk) ELSE chunks
           /\ spc' = IF step.stop THEN "closed" ELSE "lines"
    /\ next_line' = next_line + 1
    /\ UNCHANGED <<post, stream_model>>

\* Line 284: the body is exhausted, the generator returns.
StreamEnd ==
    /\ spc = "lines"
    /\ next_line > Len(post.body)
    /\ spc' = "closed"
    /\ UNCHANGED <<post, stream_model, next_line, chunks>>

\* The consumer abandons the generator between two chunks.
StreamCancel ==
    /\ spc = "lines"
    /\ spc' = "cancelled"
    /\ UNCHANGED <<post, stream_model, next_line, chunks>>

(***************************************************************************)
(* OllamaClient: the session's retry policy, request by request            *)
(***************************************************************************)

\* Retry(total=3, ...)
retry_total == 3

\* Retry(status_forcelist=[500, 502, 503, 504], ...)
status_forcelist == {500, 502, 503, 504}

\* Retry.RETRY_AFTER_STATUS_CODES: with respect_retry_after_header left at
\* its default, a response of one of these statuses that carries a
\* Retry-After header is retried too.
RETRY_AFTER_STATUS_CODES == {413, 429, 503}

\* What becomes of one request sent to the backend: the connection cannot be
\* made ("ConnectTimeoutError", "NewConnectionError"), the request is sent
\* and no response arrives ("ReadTimeoutError", "ProtocolError"), or a
\* response arrives, with a status, with or without a Retry-After header,
\* and a body.
Attempt(kind, status, retry_after, body) ==
    [kind |-> kind, status |-> status, retry_after |-> retry_after, body |-> body]

AttemptError(kind) == Attempt(kind, 0, FALSE, <<>>)

AttemptErrors == {"ConnectTimeoutError", "NewConnectionError", "ReadTimeoutError", "ProtocolError"}

\* Bodies of the responses of the backend.
ClientBodies ==
    { <<ObjLine(<<"Hi">>, TRUE)>>,
      <<ObjLine(<<"Hel">>, FALSE)>>,
      <<ObjLine(<<"Hel">>, FALSE), ObjLine(<<"!">>, TRUE)>>,
      <<ObjLine(<<"Hel">>, FALSE), BrokenLine>>,
      <<ObjLine(<<"Hel">>, FALSE), BadLine, ObjLine(<<"lo">>, FALSE)>>,
      <<ObjLine(<<"Hel">>, FALSE), ScalarLine>>,
      <<BadLine>>,
      <<ScalarLine>> }

Attempts ==
    { AttemptError(k) : k \in AttemptErrors }
    \cup { Attempt("response", 200, FALSE, b) : b \in ClientBodies }
    \cup { Attempt("response", st, FALSE, <<BadLine>>) :
               st \in {400, 404, 429} \cup status_forcelist }
    \cup { Attempt("response", 429, TRUE, <<BadLine>>) }

\* Whether the retry policy takes the request up again: every failure to
\* get a response is retried (total counts them all, POST is an allowed
\* method), and so is a response Retry.is_retry accepts.
is_retry(left, o) ==
    \/ o.kind \in AttemptErrors
    \/ /\ o.kind = "response"
       /\ \/ o.status \in status_forcelist
          \/ left # 0 /\ o.retry_after /\ o.status \in RETRY_AFTER_STATUS_CODES

\* Retry.increment and is_exhausted: "resend" while retries are left,
\* "raise" (MaxRetryError) when they are used up, "return" for a response
\* that is not retried.
RetryDecision(left, o) ==
    IF ~is_retry(left, o) THEN "return"
    ELSE IF left - 1 < 0 THEN "raise"
    ELSE "resend"

\* How session.post ends on the last request: the response, or the
\* exception requests makes of MaxRetryError (ConnectTimeout, which is a
\* Timeout; RetryError; ConnectionError for every other reason).
SessionPost(left, o) ==
    IF RetryDecision(left, o) = "return" THEN Post("response", o.status, o.body)
    ELSE IF o.kind = "ConnectTimeoutError" THEN Post("timeout", 0, <<>>)
    ELSE IF o.kind = "response" THEN Post("exception", o.status, <<>>)
    ELSE Post("connection_error", 0, <<>>)

TimeoutArgs == { NoneInt, SomeInt(timeout_tool_request) }

\* generate or generate_stream is called and sends its request.
ClientSend(meth, m, s, t) ==
    /\ cpc = "idle"
    /\ method' = meth
    /\ call_model' = m
    /\ call_stream' = s
    /\ call_timeout' = t
    /\ retries_left' = retry_total
    /\ sent' = <<>>
    /\ cpc' = "sending"
    /\ UNCHANGED call_result

\* The request fails or is answered with a status the policy retries, and
\* the policy sends it again.
ClientResend(o) ==
    /\ cpc = "sending"
    /\ RetryDecision(retries_left, o) = "resend"
    /\ sent' = Append(sent, o)
    /\ retries_left' = retries_left - 1
    /\ UNCHANGED <<cpc, method, call_model, call_stream, call_timeout, call_result>>

\* Lines 149-223: session.post ends and generate returns.
GenerateReturn(o) ==
    /\ cpc = "sending"
    /\ method = "generate"
    /\ RetryDecision(retries_left, o) # "resend"
    /\ sent' = Append(sent, o)
    /\ call_result' = generate(SessionPost(retries_left, o), call_model, call_stream, call_timeout)
    /\ cpc' = "returned"
    /\ UNCHANGED <<method, call_model, call_stream, call_timeout, retries_left>>

\* Lines 275-283 and 301-328: session.post ends in generate_stream.
StreamPosted(o) ==
    /\ cpc = "sending"
    /\ method = "generate_stream"
    /\ RetryDecision(retries_left, o) # "resend"
    /\ sent' = Append(sent, o)
    /\ StreamOpen(SessionPost(retries_left, o), call_model)
    /\ cpc' = "streaming"
    /\ UNCHANGED <<method, call_model, call_stream, call_timeout, retries_left, call_result>>

(***************************************************************************)
(* ToolRegistry: register and parse_tool_call                              *)
(***************************************************************************)

\* The variables of a chat turn other than the registry.
turnVars ==
    <<pc, prompt, use_tools, model, system_prompt, calls, response, tool_name,
      parameters, tool_end, tool_result, final_response, answer, exc, trace,
      ui_config, show_loading, show_timing, loaders, timing, now, total_start>>

\* Descriptors passed to register.
ToolDescriptors ==
    { WebSearchToolEntry, OtherSearchToolEntry, BoomToolEntry, EchoToolEntry }

\* Texts passed to parse_tool_call: what comes before the braces, the
\* braces, and what comes after them.
TextPrefixes ==
    { <<>>,
      <<" ", "\n">>,
      <<"Sure", " ">>,
      <<"<fence>json", "\n">>,
      <<"<fence>", "\n">>,
      <<"Sure", " ", "<fence>json", "\n">>,
      <<"{", "}", " ">>,
      <<"<fence>", "x", "<fence>", " ">>,
      <<"<fence>", "x", "<fence>", " ", "<fence>json", "\n">> }

TextMiddles ==
    { CallOf(<<"\"web_search\"">>, RainQuery),
      CallOf(<<"\"nope\"">>, <<"{", "}">>),
      CallOf(<<"\"web_search\"">>, <<"[", "\"rain\"", "]">>),
      <<"{", "\"tool\"", ":", "\"web_search\"", "}">>,
      <<"{", "\"parameters\"", ":">> \o RainQuery \o <<",", "\"tool\"", ":", "\"boom\"", "}">>,
      CallOf(<<"null">>, RainQuery),
      CallOf(<<"[", "\"web_search\"", "]">>, RainQuery),
      RainQuery,
      <<"{", "\"query\"", ":", "\"tool\"", "}">>,
      <<"{", "\"query\"", ":">> \o <<"{", "\"tool\"", ":", "\"web_search\"", "}">> \o <<"}">>,
      <<"{", "\"tool\"", ":", "\"web_search\"">>,
      <<"{", "\"tool\"", "\"web_search\"", "}">>,
      <<"\"tool\"">>,
      <<"Hi there!">>,
      <<>> }

TextSuffixes ==
    { <<>>,
      <<"\n", " ">>,
      <<" ", "done">>,
      <<" ", "}">>,
      <<"\n", "<fence>">>,
      <<"\n", "<fence>", " ", "done", "}">>,
      <<"\n", "<fence>", " ", "<fence>", "\"tool\"", "<fence>">>,
      <<" ", "<fence>", "x", "<fence>">>,
      <<" ">> \o CallOf(<<"\"boom\"">>, RainQuery) }

ParseTexts ==
    { a \o b \o c : a \in TextPrefixes, b \in TextMiddles, c \in TextSuffixes }

\* Lines 101-112: register(tool).
Register(tool) ==
    /\ reg_op' = "register"
    /\ reg_before' = tools
    /\ reg_arg' = tool
    /\ tools' = register(tools, tool).tools
    /\ reg_raised' = register(tools, tool).raised
    /\ UNCHANGED <<exec_name, exec_kwargs, handler_end, exec_end>>
    /\ UNCHANGED turnVars

\* Names and keyword sets passed to execute.
ExecuteNames == {"web_search", "boom", "echo", "missing"}

ExecuteKeywords == { {}, {"query"}, {"query", "max_results"}, {"text"}, {"q"} }

\* Lines 144-161: execute(name, **kwargs).
Execute(name, keys) ==
    /\ reg_op' = "execute"
    /\ exec_name' = name
    /\ exec_kwargs' = keys
    /\ \E end \in (IF name \in ToolNames(tools)
                   THEN HandlerEnds(GetTool(tools, name).function, keys)
                   ELSE {NoHandlerEnd}) :
           /\ handler_end' = end
           /\ exec_end' = execute(tools, name, end)
    /\ UNCHANGED <<tools, reg_before, reg_arg, reg_raised>>
    /\ UNCHANGED turnVars

\* What the operations below leave alone.
RegistryUntouched ==
    <<tools, reg_before, reg_arg, reg_raised, exec_name, exec_kwargs,
      handler_end, exec_end>>

\* Lines 114-123: get(name), None for a name that is not registered.
Get(name) ==
    /\ reg_op' = "get"
    /\ reg_value' = IF name \in ToolNames(tools) THEN <<GetTool(tools, name)>> ELSE <<>>
    /\ UNCHANGED RegistryUntouched
    /\ UNCHANGED turnVars

\* Lines 133-142: has_tool(name).
HasTool(name) ==
    /\ reg_op' = "has_tool"
    /\ reg_value' = <<has_tool(tools, JStr(name))>>
    /\ UNCHANGED RegistryUntouched
    /\ UNCHANGED turnVars

\* Lines 125-131: list_tools().
ListTools ==
    /\ reg_op' = "list_tools"
    /\ reg_value' = list_tools(tools)
    /\ UNCHANGED RegistryUntouched
    /\ UNCHANGED turnVars

\* Lines 163-190: format_tools_for_prompt().
FormatToolsForPrompt ==
    /\ reg_op' = "format_tools_for_prompt"
    /\ reg_value' = format_tools_for_prompt(tools)
    /\ UNCHANGED RegistryUntouched
    /\ UNCHANGED turnVars

\* Lines 192-236: parse_tool_call(text) called on the registry.
RegistryParseToolCall(text) ==
    /\ reg_op' = "parse_tool_call"
    /\ reg_value' = <<parse_tool_call(text)>>
    /\ UNCHANGED RegistryUntouched
    /\ UNCHANGED turnVars

\* Names passed to get and has_tool, texts passed to parse_tool_call.
LookupNames == {"web_search", "missing"}

LookupTexts == { <<"Hi there!">>, CallOf(<<"\"web_search\"">>, RainQuery) }

\* Lines 192-236: parse_tool_call(response_text).
ParseToolCall ==
    /\ ppc = "none"
    /\ ppc' = "parsed"
    /\ decoder_calls' = IF json_loads_called(parse_input) THEN 1 ELSE 0
    /\ LET e == try_raises(parse_input)
       IN  IF e # "" /\ ~except_catches(e)
           THEN parse_exc' = e /\ parse_result' = NoToolCall
           ELSE parse_exc' = "" /\ parse_result' = parse_tool_call(parse_input)
    /\ UNCHANGED parse_input

Init ==
    /\ ChatIdle
    /\ ui_config = DefaultUIConfig
    /\ tools \in Registries
    /\ StreamIdle
    /\ ClientIdle
    /\ RegistryIdle
    /\ ParseIdle
    /\ ProcessorIdle
    /\ NoProcessorInput
    /\ SessionIdle
    /\ ExtraIdle
    /\ parse_input = <<>>

Next ==
    \/ \E p \in UserTexts, m \in ModelArgs, ut \in BOOLEAN, sl \in ShowArgs, st \in ShowArgs :
           ChatStart(p, m, ut, sl, st) /\ UNCHANGED <<streamVars, clientVars, registryVars, parseVars, processorVars, sessionVars, extraVars>>
    \/ \E reply \in Replies, d \in Delays : FirstResponse(reply, d) /\ UNCHANGED <<streamVars, clientVars, registryVars, parseVars, processorVars, sessionVars, extraVars>>
    \/ \E end \in ExecuteEnds(tools, tool_name.s, parameters), d \in Delays :
           ToolExecute(end, d) /\ UNCHANGED <<streamVars, clientVars, registryVars, parseVars, processorVars, sessionVars, extraVars>>
    \/ \E reply \in Replies, d \in Delays : SecondResponse(reply, d) /\ UNCHANGED <<streamVars, clientVars, registryVars, parseVars, processorVars, sessionVars, extraVars>>

Spec == Init /\ [][Next]_vars

InitStream ==
    /\ ChatIdle
    /\ ui_config = DefaultUIConfig
    /\ tools = <<WebSearchToolEntry>>
    /\ StreamIdle
    /\ ClientIdle
    /\ RegistryIdle
    /\ ParseIdle
    /\ ProcessorIdle
    /\ NoProcessorInput
    /\ SessionIdle
    /\ ExtraIdle
    /\ parse_input = <<>>

NextStream ==
    \/ \E p \in StreamReplies, m \in ModelArgs : StreamOpen(p, m) /\ UNCHANGED <<chatVars, clientVars, registryVars, parseVars, processorVars, sessionVars, extraVars>>
    \/ StreamLine /\ UNCHANGED <<chatVars, clientVars, registryVars, parseVars, processorVars, sessionVars, extraVars>>
    \/ StreamEnd /\ UNCHANGED <<chatVars, clientVars, registryVars, parseVars, processorVars, sessionVars, extraVars>>
    \/ StreamCancel /\ UNCHANGED <<chatVars, clientVars, registryVars, parseVars, processorVars, sessionVars, extraVars>>

SpecStream == InitStream /\ [][NextStream]_vars

InitClient ==
    /\ ChatIdle
    /\ ui_config = DefaultUIConfig
    /\ tools = <<WebSearchToolEntry>>
    /\ StreamIdle
    /\ ClientIdle
    /\ RegistryIdle
    /\ ParseIdle
    /\ ProcessorIdle
    /\ NoProcessorInput
    /\ SessionIdle
    /\ ExtraIdle
    /\ parse_input = <<>>

NextClient ==
    \/ \E m \in ModelArgs, s \in BOOLEAN, t \in TimeoutArgs :
           ClientSend("generate", m, s, t) /\ UNCHANGED <<chatVars, streamVars, registryVars, parseVars, processorVars, sessionVars, extraVars>>
    \/ \E m \in ModelArgs :
           ClientSend("generate_stream", m, TRUE, NoneInt) /\ UNCHANGED <<chatVars, streamVars, registryVars, parseVars, processorVars, sessionVars, extraVars>>
    \/ \E o \in Attempts : ClientResend(o) /\ UNCHANGED <<chatVars, streamVars, registryVars, parseVars, processorVars, sessionVars, extraVars>>
    \/ \E o \in Attempts : GenerateReturn(o) /\ UNCHANGED <<chatVars, streamVars, registryVars, parseVars, processorVars, sessionVars, extraVars>>
    \/ \E o \in Attempts : StreamPosted(o) /\ UNCHANGED <<chatVars, registryVars, parseVars, processorVars, sessionVars, extraVars>>
    \/ StreamLine /\ UNCHANGED <<chatVars, clientVars, registryVars, parseVars, processorVars, sessionVars, extraVars>>
    \/ StreamEnd /\ UNCHANGED <<chatVars, clientVars, registryVars, parseVars, processorVars, sessionVars, extraVars>>
    \/ StreamCancel /\ UNCHANGED <<chatVars, clientVars, registryVars, parseVars, processorVars, sessionVars, extraVars>>

SpecClient == InitClient /\ [][NextClient]_vars

\* ToolRegistry.__init__: the registry is empty.
InitRegistry ==
    /\ ChatIdle
    /\ ui_config = DefaultUIConfig
    /\ tools = <<>>
    /\ StreamIdle
    /\ ClientIdle
    /\ RegistryIdle
    /\ ParseIdle
    /\ ProcessorIdle
    /\ NoProcessorInput
    /\ SessionIdle
    /\ ExtraIdle
    /\ parse_input = <<>>

NextRegistry ==
    \/ \E tool \in ToolDescriptors :
           Register(tool) /\ UNCHANGED <<streamVars, clientVars, parseVars, processorVars, sessionVars, extraVars>>
    \/ \E name \in ExecuteNames, keys \in ExecuteKeywords :
           Execute(name, keys) /\ UNCHANGED <<streamVars, clientVars, parseVars, processorVars, sessionVars, extraVars>>
    \/ \E name \in LookupNames :
           Get(name) /\ UNCHANGED <<streamVars, clientVars, parseVars, processorVars, sessionVars, OtherThanLookup>>
    \/ \E name \in LookupNames :
           HasTool(name) /\ UNCHANGED <<streamVars, clientVars, parseVars, processorVars, sessionVars, OtherThanLookup>>
    \/ ListTools /\ UNCHANGED <<streamVars, clientVars, parseVars, processorVars, sessionVars, OtherThanLookup>>
    \/ FormatToolsForPrompt /\ UNCHANGED <<streamVars, clientVars, parseVars, processorVars, sessionVars, OtherThanLookup>>
    \/ \E text \in LookupTexts :
           RegistryParseToolCall(text) /\ UNCHANGED <<streamVars, clientVars, parseVars, processorVars, sessionVars, OtherThanLookup>>

SpecRegistry == InitRegistry /\ [][NextRegistry]_vars

InitParse ==
    /\ ChatIdle
    /\ ui_config = DefaultUIConfig
    /\ tools = <<>>
    /\ StreamIdle
    /\ ClientIdle
    /\ RegistryIdle
    /\ ParseIdle
    /\ ProcessorIdle
    /\ NoProcessorInput
    /\ SessionIdle
    /\ ExtraIdle
    /\ parse_input \in ParseTexts

NextParse ==
    ParseToolCall /\ UNCHANGED <<chatVars, streamVars, clientVars, registryVars, processorVars, sessionVars, extraVars>>

SpecParse == InitParse /\ [][NextParse]_vars

(***************************************************************************)
(* The search result processors                                            *)
(***************************************************************************)

\* s repeated n times.
Repeat(s, n) ==
    LET F[i \in 0..n] == IF i = 0 THEN "" ELSE F[i - 1] \o s
    IN  F[n]

\* Search result bodies: one to three sentences, and texts without a
\* sentence end or without a space.
ProcSentences ==
    { "rain is expected tomorrow", "sunny today", "Heavy Rain tonight", "ok" }

ProcTexts ==
    LET one == ProcSentences
        two == { a \o ". " \o b : a \in ProcSentences, b \in ProcSentences }
        three == { a \o "! Heavy Rain tonight? " \o b : a \in ProcSentences, b \in ProcSentences }
        plain == one \cup two \cup three
    IN  plain \cup { a \o "." : a \in plain }
              \cup { "", "abcdefghijklmnopqrstuvwxyz", "rain tomorrow and more rain ",
                     Repeat("0123456 89", 21) }

ProcQueries == { "rain tomorrow", "Tonight", "" }

\* max_length of the processor: the configured 150, the default 200 of
\* SimpleProcessor, and smaller ones.
ProcMaxLengths == { 8, 11, 25, 40, 150, 200 }

SummaryReplies ==
    { SummaryReply("Timeout", 0, FALSE, JNull),
      SummaryReply("ConnectionError", 0, FALSE, JNull),
      SummaryReply("response", 200, TRUE, JObj(<<[key |-> "response", val |-> JStr("Rain tomorrow.")]>>)),
      SummaryReply("response", 200, TRUE, JObj(<<[key |-> "error", val |-> JStr("model not found")]>>)),
      SummaryReply("response", 200, TRUE, JList(<<>>)),
      SummaryReply("response", 200, FALSE, JNull),
      SummaryReply("response", 404, TRUE, JObj(<<[key |-> "error", val |-> JStr("model not found")]>>)),
      SummaryReply("response", 500, FALSE, JNull) }

\* ExtractionProcessor(max_length).process(text, query)
ExtractionProcess ==
    /\ proc = "none"
    /\ proc' = "extraction"
    /\ proc_input' = proc_text
    /\ proc_out' = extraction_process(proc_text, proc_query, proc_max_length)
    /\ proc_raised' = ""
    /\ proc_calls' = 1
    /\ UNCHANGED <<proc_text, proc_query, proc_max_length, proc_reply>>

\* SimpleProcessor(max_length).process, of the text and then of what the
\* call before returned.
SimpleProcess ==
    /\ proc \in {"none", "simple"}
    /\ proc_calls < 2
    /\ proc' = "simple"
    /\ proc_input' = IF proc = "none" THEN proc_text ELSE proc_out
    /\ proc_out' = simple_process(proc_input', proc_max_length)
    /\ proc_raised' = ""
    /\ proc_calls' = proc_calls + 1
    /\ UNCHANGED <<proc_text, proc_query, proc_max_length, proc_reply>>

\* SmallModelProcessor.process(text, query)
SmallModelProcess(reply) ==
    /\ proc = "none"
    /\ proc' = "small_model"
    /\ proc_reply' = reply
    /\ proc_input' = proc_text
    /\ proc_out' = small_model_process(reply, proc_text).out
    /\ proc_raised' = small_model_process(reply, proc_text).raised
    /\ proc_calls' = 1
    /\ UNCHANGED <<proc_text, proc_query, proc_max_length>>

InitProcessor ==
    /\ ChatIdle
    /\ ui_config = DefaultUIConfig
    /\ tools = <<>>
    /\ StreamIdle
    /\ ClientIdle
    /\ RegistryIdle
    /\ ParseIdle
    /\ parse_input = <<>>
    /\ ProcessorIdle
    /\ proc_text \in ProcTexts
    /\ proc_query \in ProcQueries
    /\ proc_max_length \in ProcMaxLengths
    /\ SessionIdle
    /\ ExtraIdle

NextProcessor ==
    \/ ExtractionProcess /\ UNCHANGED <<chatVars, streamVars, clientVars, registryVars, parseVars, sessionVars, extraVars>>
    \/ SimpleProcess /\ UNCHANGED <<chatVars, streamVars, clientVars, registryVars, parseVars, sessionVars, extraVars>>
    \/ \E reply \in SummaryReplies :
           SmallModelProcess(reply) /\ UNCHANGED <<chatVars, streamVars, clientVars, registryVars, parseVars, sessionVars, extraVars>>

SpecProcessor == InitProcessor /\ [][NextProcessor]_vars

(***************************************************************************)
(* ChatBot.interactive_chat                                                *)
(***************************************************************************)

\* Most chat calls of a session.
MaxTurns == 1

\* The lines input("You: ") returns.
InputLines == { "", "  ", "quit", " EXIT ", "Bye", " weather in X " }

\* The exceptions input("You: ") raises: Ctrl-C, and the end of stdin.
InputErrors == { "KeyboardInterrupt", "EOFError" }

QuitWords == { "quit", "exit", "bye" }

\* A signal that arrives while chat waits for the model or for the tool:
\* KeyboardInterrupt is not an Exception, so neither generate nor the
\* try block around the tool call catches it and it leaves chat where it
\* arrived.
Interrupt ==
    /\ pc \in {"first", "tool", "second"}
    /\ pc' = "interrupted"
    /\ exc' = <<"KeyboardInterrupt">>
    /\ UNCHANGED <<tools, prompt, use_tools, model, system_prompt, calls, response,
                   tool_name, parameters, tool_end, tool_result, final_response,
                   answer, trace, ui_config, show_loading, show_timing, loaders,
                   timing, now, total_start>>

\* The locals of a chat call are gone once it has been left.
ChatLeft ==
    /\ pc' = "idle"
    /\ prompt' = <<>>
    /\ use_tools' = FALSE
    /\ model' = None
    /\ system_prompt' = <<>>
    /\ calls' = <<>>
    /\ response' = NoResponse
    /\ tool_name' = JNull
    /\ parameters' = JNull
    /\ tool_end' = NoCallEnd
    /\ tool_result' = <<>>
    /\ final_response' = NoResponse
    /\ answer' = <<>>
    /\ exc' = <<>>
    /\ trace' = <<>>
    /\ show_loading' = FALSE
    /\ show_timing' = FALSE
    /\ loaders' = <<>>
    /\ timing' = ChatTiming
    /\ total_start' = 0
    /\ UNCHANGED <<tools, ui_config, now>>

\* Lines 195-205: interactive_chat(model) resolves the model and prints the
\* header.
SessionStart(m) ==
    /\ session = "off"
    /\ session' = "prompting"
    /\ session_model' = IF m.some THEN m ELSE Some(MODEL_NAME)
    /\ last_printed' = <<"Type 'quit' or 'exit' to end the session">>
    /\ UNCHANGED <<last_input, end_reason, turns>>
    /\ UNCHANGED chatVars

\* Lines 209-216: input returns a line that is empty once stripped (the
\* loop continues) or a quit word (the loop ends).
SessionInput(line) ==
    /\ session = "prompting"
    /\ StripStr(line) = "" \/ Lower(StripStr(line)) \in QuitWords
    /\ last_input' = line
    /\ IF StripStr(line) = ""
       THEN UNCHANGED <<session, last_printed, end_reason>>
       ELSE /\ session' = "ended"
            /\ last_printed' = <<"Goodbye!">>
            /\ end_reason' = "quit"
    /\ UNCHANGED <<session_model, turns>>
    /\ UNCHANGED chatVars

\* Lines 209 and 222-227: input raises.
SessionInputRaises(e) ==
    /\ session = "prompting"
    /\ session' = "ended"
    /\ IF e = "KeyboardInterrupt"
       THEN last_printed' = <<"\n\nGoodbye!">> /\ end_reason' = "interrupt"
       ELSE last_printed' = <<"\nError: ", e>> /\ end_reason' = "exception"
    /\ UNCHANGED <<session_model, last_input, turns>>
    /\ UNCHANGED chatVars

\* Lines 209-219: input returns any other line and chat is called with it.
SessionChat(line) ==
    /\ session = "prompting"
    /\ turns < MaxTurns
    /\ StripStr(line) # "" /\ Lower(StripStr(line)) \notin QuitWords
    /\ last_input' = line
    /\ session' = "in_turn"
    /\ ChatStart(<<StripStr(line)>>, session_model, TRUE, NoneBool, NoneBool)
    /\ UNCHANGED <<session_model, last_printed, end_reason, turns>>

\* Lines 219-221: chat returns, the answer is printed and the loop goes on.
SessionTurnReturns ==
    /\ session = "in_turn"
    /\ pc = "done"
    /\ last_printed' = <<"AI: ">> \o answer
    /\ session' = "prompting"
    /\ turns' = turns + 1
    /\ ChatLeft
    /\ UNCHANGED <<session_model, last_input, end_reason>>

\* Lines 219 and 222-227: an exception leaves chat.
SessionTurnRaises ==
    /\ session = "in_turn"
    /\ pc \in {"raised", "interrupted"}
    /\ session' = "ended"
    /\ IF pc = "interrupted"
       THEN last_printed' = <<"\n\nGoodbye!">> /\ end_reason' = "interrupt"
       ELSE last_printed' = <<"\nError: ">> \o exc /\ end_reason' = "exception"
    /\ UNCHANGED <<session_model, last_input, turns>>
    /\ UNCHANGED chatVars

\* create_default_registry registers web_search; the ui configuration is
\* the default one or has both displays switched off.
InitSession ==
    /\ ChatIdle
    /\ ui_config \in { DefaultUIConfig, UIConfig(FALSE, FALSE) }
    /\ tools = <<WebSearchToolEntry>>
    /\ StreamIdle
    /\ ClientIdle
    /\ RegistryIdle
    /\ ParseIdle
    /\ parse_input = <<>>
    /\ ProcessorIdle
    /\ NoProcessorInput
    /\ SessionIdle
    /\ ExtraIdle

NextSession ==
    \/ \E m \in ModelArgs : SessionStart(m) /\ UNCHANGED <<streamVars, clientVars, registryVars, parseVars, processorVars, extraVars>>
    \/ \E line \in InputLines : SessionInput(line) /\ UNCHANGED <<streamVars, clientVars, registryVars, parseVars, processorVars, extraVars>>
    \/ \E e \in InputErrors : SessionInputRaises(e) /\ UNCHANGED <<streamVars, clientVars, registryVars, parseVars, processorVars, extraVars>>
    \/ \E line \in InputLines : SessionChat(line) /\ UNCHANGED <<streamVars, clientVars, registryVars, parseVars, processorVars, extraVars>>
    \/ \E reply \in Replies, d \in Delays :
           /\ session = "in_turn"
           /\ FirstResponse(reply, d)
           /\ UNCHANGED <<streamVars, clientVars, registryVars, parseVars, processorVars, sessionVars, extraVars>>
    \/ \E end \in ExecuteEnds(tools, tool_name.s, parameters), d \in Delays :
           /\ session = "in_turn"
           /\ ToolExecute(end, d)
           /\ UNCHANGED <<streamVars, clientVars, registryVars, parseVars, processorVars, sessionVars, extraVars>>
    \/ \E reply \in Replies, d \in Delays :
           /\ session = "in_turn"
           /\ SecondResponse(reply, d)
           /\ UNCHANGED <<streamVars, clientVars, registryVars, parseVars, processorVars, sessionVars, extraVars>>
    \/ /\ session = "in_turn"
       /\ Interrupt
       /\ UNCHANGED <<streamVars, clientVars, registryVars, parseVars, processorVars, sessionVars, extraVars>>
    \/ SessionTurnReturns /\ UNCHANGED <<streamVars, clientVars, registryVars, parseVars, processorVars, extraVars>>
    \/ SessionTurnRaises /\ UNCHANGED <<streamVars, clientVars, registryVars, parseVars, processorVars, extraVars>>

SpecSession == InitSession /\ [][NextSession]_vars

(***************************************************************************)
(* Properties of ChatBot.chat (specification Spec)                         *)
(***************************************************************************)

\* sub occurs in text (as a contiguous run of tokens).
Contains(text, sub) ==
    \E i \in 1..(Len(text) - Len(sub) + 1) :
        SubSeq(text, i, i + Len(sub) - 1) = sub

\* text starts with pre.
StartsWith(text, pre) ==
    Len(pre) <= Len(text) /\ SubSeq(text, 1, Len(pre)) = pre

\* Number of times a collaborator was entered.
Count(e) == Cardinality({i \in DOMAIN trace : trace[i] = e})

FirstReturned == pc \notin {"idle", "first"}

\* The first-stage response is a call of a registered tool.
RegisteredCall ==
    /\ FirstReturned
    /\ response.success
    /\ has_tool(tools, parse_tool_call(response.text).tool)

\* C1: when the first generate returns success=false, chat returns without
\* executing a tool and without a second generate: exactly one generate call
\* was issued in the turn.
C1_FirstFailureStops ==
    (FirstReturned /\ ~response.success) =>
        /\ pc = "done"
        /\ Len(calls) = 1
        /\ Count("generate") = 1
        /\ Count("execute") = 0
        /\ Count("handler") = 0
        /\ Count("tool_done") = 0
        /\ final_response = NoResponse

C1_Witness == pc = "done" /\ use_tools /\ ~response.success

\* C2: when the handler of a recognized tool raises, the tool is executed
\* exactly once, the second generate is still issued, and its prompt contains
\* "Tool execution error: " followed by the exception message.
C2_HandlerExceptionFedBack ==
    (tool_end.handler /\ tool_end.raised) =>
        /\ pc \in {"second", "done"}
        /\ Count("execute") = 1
        /\ Count("handler") = 1
        /\ Len(calls) = 2
        /\ Count("generate") = 2
        /\ Contains(calls[2].prompt, <<"Tool execution error: ">> \o tool_end.text)

C2_Witness ==
    /\ pc = "second"
    /\ tool_end.handler
    /\ tool_end.raised
    /\ tool_end.text = <<"boom error">>

\* C3: execute is never called with an unregistered name, and when the
\* parsed tool name is absent from the registry the turn ends like the
\* no-tool case: the first-stage raw text is returned after exactly one
\* generate call.
C3_UnknownToolIsNoTool ==
    /\ Count("execute") > 0 => has_tool(tools, tool_name)
    /\ (FirstReturned /\ response.success /\ use_tools
            /\ tool_name # JNull /\ ~has_tool(tools, tool_name)) =>
        /\ pc = "done"
        /\ answer = response.text
        /\ Len(calls) = 1

\* Positions of the generate calls and of the steps of the tool call.
GeneratePositions == {i \in DOMAIN trace : trace[i] = "generate"}

ToolPositions == {i \in DOMAIN trace : trace[i] \in {"execute", "handler", "tool_done"}}

\* First generate, then the tool call, then the second generate.
ToolTurnOrder ==
    /\ Len(calls) = 2
    /\ Cardinality(GeneratePositions) = 2
    /\ Count("tool_done") = 1
    /\ Count("execute") <= 1
    /\ Count("handler") <= Count("execute")
    /\ \A i \in ToolPositions :
           \E g1, g2 \in GeneratePositions : g1 < i /\ i < g2

SecondPromptEmbeds ==
    /\ Contains(calls[2].prompt, prompt)
    /\ Contains(calls[2].prompt, response.text)
    /\ Contains(calls[2].prompt, tool_result)
    /\ tool_result # <<>>

\* C4 as stated: with tools enabled and a first-stage call of a registered
\* tool, the turn is first generate, tool execution, second generate (two
\* generate calls), the second prompt contains the user text, the first
\* response and the tool result, and the answer is the text of the second
\* response.
C4_Original ==
    (use_tools /\ RegisteredCall /\ pc = "done") =>
        /\ ToolTurnOrder
        /\ Count("execute") = 1
        /\ SecondPromptEmbeds
        /\ answer = final_response.text

\* ToolRegistry.execute can be entered with the parsed parameters.
ParametersBind ==
    parameters.k = "obj" /\ DictKeys(parameters) \cap ExecuteOwnParameters = {}

\* C4 (amended): with tools enabled and a first-stage call of a registered
\* tool, the turn is first generate, tool call, second generate, in this
\* order, with exactly two generate calls; execute is entered (once) exactly
\* when the parsed parameters are an object with no member named like a
\* parameter of execute itself, and otherwise the call raises while its
\* arguments are bound and the error text is the tool result; the
\* second prompt contains the user text, the first response and the tool
\* result; the answer is the text of the second response when the second
\* generate succeeded and "Error: " followed by its error when it failed.
C4_TwoStageTurn ==
    /\ (use_tools /\ RegisteredCall) => pc \in {"tool", "second", "done"}
    /\ (use_tools /\ RegisteredCall /\ pc = "tool") =>
           Len(calls) = 1 /\ ToolPositions = {}
    /\ (use_tools /\ RegisteredCall /\ pc \in {"second", "done"}) =>
        /\ ToolTurnOrder
        /\ Count("execute") = (IF ParametersBind THEN 1 ELSE 0)
        /\ ~ParametersBind =>
               tool_end.raised /\ StartsWith(tool_result, <<"Tool execution error: ">>)
        /\ SecondPromptEmbeds
    /\ (use_tools /\ RegisteredCall /\ pc = "done") =>
           answer = IF final_response.success
                    THEN final_response.text
                    ELSE <<"Error: ">> \o final_response.error.v

C4_Witness ==
    /\ use_tools
    /\ RegisteredCall
    /\ pc = "done"
    /\ ~tool_end.raised
    /\ final_response.success
    /\ answer = <<"It's sunny">>

\* C5 as stated: with tools disabled there is exactly one generate call, its
\* prompt is the user text without the manifest, neither the parser nor the
\* registry is consulted, and the answer is the model's raw text.
C5_Original ==
    (~use_tools /\ pc = "done") =>
        /\ Len(calls) = 1
        /\ calls[1].prompt = prompt
        /\ trace = <<"generate">>
        /\ answer = response.text

\* C5 (amended): with tools disabled there is exactly one generate call, its
\* prompt is the user text without the manifest, neither the parser nor the
\* registry is consulted, and the answer is the model's raw text when the
\* call succeeded (also when that text is a call of a registered tool) and
\* "Error: " followed by the error text when it failed.
C5_ToolsDisabled ==
    /\ (~use_tools /\ FirstReturned) =>
        /\ pc = "done"
        /\ Len(calls) = 1
        /\ calls[1].prompt = prompt
        /\ trace = <<"generate">>
        /\ answer = IF response.success
                    THEN response.text
                    ELSE <<"Error: ">> \o response.error.v
    /\ (~use_tools /\ pc = "first") =>
           calls[1].prompt = prompt /\ trace = <<"generate">>

C5_Witness ==
    /\ ~use_tools
    /\ pc = "done"
    /\ tools # <<>>
    /\ RegisteredCall
    /\ answer = response.text

\* C6: when the generate call of either stage returns success=false, chat
\* returns "Error: " followed by that stage's error text; a second-stage
\* failure returns neither the first-stage text nor the tool result; the
\* returned string is not empty.
C6_FailureAnswer ==
    /\ (FirstReturned /\ ~response.success) =>
        /\ pc = "done"
        /\ response.error.some
        /\ answer = <<"Error: ">> \o response.error.v
        /\ answer # <<>>
    /\ (pc = "done" /\ Len(calls) = 2 /\ ~final_response.success) =>
        /\ final_response.error.some
        /\ answer = <<"Error: ">> \o final_response.error.v
        /\ answer # response.text
        /\ answer # tool_result
        /\ answer # <<>>

C6_Witness ==
    /\ pc = "done"
    /\ Len(calls) = 2
    /\ response.success
    /\ ~final_response.success
    /\ answer = <<"Error: ">> \o TimeoutText(timeout_tool_request)

\* C7: chat returns a string and never raises for a successful first-stage
\* response, whatever JSON value its "tool" member holds; a response that
\* does not name a registered tool is handled as the no-tool case.
C7_ChatNeverRaises ==
    (FirstReturned /\ response.success) =>
        /\ pc # "raised"
        /\ ~(use_tools /\ RegisteredCall) =>
               pc = "done" /\ answer = response.text /\ Len(calls) = 1

(***************************************************************************)
(* Properties of OllamaClient.generate_stream (specification SpecStream)   *)
(***************************************************************************)

\* C8: a chunk whose error is set is the last chunk of the sequence and has
\* done=true.
C8_ErrorChunkIsTerminal ==
    \A i \in DOMAIN chunks :
        chunks[i].error.some => (i = Len(chunks) /\ chunks[i].done)

\* The chunks of the JSON objects among the first n lines of a body.
WellFormedChunks(body, n) ==
    LET F[i \in 0..n] ==
            IF i = 0 THEN <<>>
            ELSE IF body[i].kind = "obj"
            THEN Append(F[i - 1], StreamChunk(GetResponse(body[i]), GetDone(body[i]), None))
            ELSE F[i - 1]
    IN  F[n]

\* C9: a body line that is not valid JSON is skipped: it produces no chunk
\* and does not end the sequence, and the well-formed lines around it produce
\* their chunks in body order.
C9_MalformedLineSkipped ==
    (/\ post.kind = "response"
     /\ post.status = 200
     /\ \A i \in 1..(next_line - 1) : post.body[i].kind \in {"empty", "bad", "obj"}) =>
        chunks = WellFormedChunks(post.body, next_line - 1)

\* C10: a sequence that has ended ends with a terminal chunk: its last chunk
\* has done=true or carries an error.
C10_EndsWithTerminalChunk ==
    spc = "closed" =>
        /\ chunks # <<>>
        /\ (chunks[Len(chunks)].done \/ chunks[Len(chunks)].error.some)

\* C11: no chunk follows the first chunk with done=true: that chunk is the
\* last one, the sequence has ended with it, and no body line after the line
\* it came from has been read.
C11_NothingAfterDone ==
    /\ \A i \in DOMAIN chunks : chunks[i].done => i = Len(chunks)
    /\ (\E i \in DOMAIN chunks : chunks[i].done) => spc = "closed"
    /\ (post.kind = "response" /\ post.status = 200) =>
           \A i \in 1..(next_line - 2) :
               ~(post.body[i].kind = "obj" /\ GetDone(post.body[i]))

C11_Witness ==
    /\ spc = "closed"
    /\ post.kind = "response"
    /\ post.status = 200
    /\ chunks = <<StreamChunk(<<"Hel">>, FALSE, None), StreamChunk(<<"!">>, TRUE, None)>>
    /\ Len(post.body) = 3
    /\ post.body[3] = ObjLine(<<"lo">>, FALSE)

\* The concatenation of the texts of a sequence of chunks.
ChunkTexts(cs) ==
    LET F[i \in 0..Len(cs)] == IF i = 0 THEN <<>> ELSE F[i - 1] \o cs[i].text
    IN  F[Len(cs)]

\* The full response a body's lines carry.
FullResponse(body) ==
    LET F[i \in 0..Len(body)] == IF i = 0 THEN <<>> ELSE F[i - 1] \o body[i].response
    IN  F[Len(body)]

\* A body of N >= 1 JSON objects with done=true on the last one only.
WellFormedBody(body) ==
    /\ Len(body) >= 1
    /\ \A i \in 1..Len(body) :
           /\ body[i].kind = "obj"
           /\ body[i].has_response
           /\ GetDone(body[i]) <=> i = Len(body)

\* C12: for a body of N well-formed lines with done=true only on the last,
\* the concatenated chunk texts of generate_stream, the text of
\* generate(stream=True) and the text of the non-streamed generate given the
\* same full response in one JSON object are equal, and hold the text of
\* the done=true line.
C12_StreamEqualsNonStream ==
    (/\ spc = "closed"
     /\ post.kind = "response"
     /\ post.status = 200
     /\ WellFormedBody(post.body)) =>
        LET streamed == generate(post, stream_model, TRUE, NoneInt)
            whole == Post("response", 200, <<ObjLine(FullResponse(post.body), TRUE)>>)
            plain == generate(whole, stream_model, FALSE, NoneInt)
        IN  /\ streamed.success
            /\ plain.success
            /\ ChunkTexts(chunks) = streamed.text
            /\ streamed.text = plain.text
            /\ plain.text = FullResponse(post.body)

C12_Witness ==
    /\ spc = "closed"
    /\ post.kind = "response"
    /\ post.status = 200
    /\ WellFormedBody(post.body)
    /\ Len(post.body) = 3
    /\ ChunkTexts(chunks) = <<"Hel", "lo", "!">>

(***************************************************************************)
(* Properties of the client's requests (specification SpecClient)          *)
(***************************************************************************)

LastSent == sent[Len(sent)]

\* The model the call asks for: the argument, or the configured default.
RequestedModel == IF call_model.some THEN call_model.v ELSE MODEL_NAME

ConfiguredTimeout ==
    IF call_timeout.some THEN call_timeout.v ELSE timeout_first_request

\* C13: when the last response of a generate call has a status other than
\* 200 and 404 (500, 502, 503 and 504 included), generate returns
\* success=false, status_code equal to that status and an error text that
\* carries the status code and the raw body of the response.
C13_HttpErrorResult ==
    (/\ cpc = "returned"
     /\ LastSent.kind = "response"
     /\ LastSent.status \notin {200, 404}) =>
        /\ ~call_result.success
        /\ call_result.status_code = SomeInt(LastSent.status)
        /\ call_result.error.some
        /\ Contains(call_result.error.v, <<ToString(LastSent.status)>>)
        /\ Contains(call_result.error.v, RawText(LastSent.body))

TimedOut(o) == o.kind \in {"ConnectTimeoutError", "ReadTimeoutError"}

\* C14: when a request of a generate call times out, no further request is
\* sent within the call (the timed-out request is the last one), and the
\* call returns success=false with the error "Request timed out after
\* <timeout> seconds" for the configured timeout.
C14_TimeoutNotResent ==
    method = "generate" =>
        /\ \A i \in DOMAIN sent : TimedOut(sent[i]) => i = Len(sent)
        /\ (cpc = "returned" /\ TimedOut(LastSent)) =>
            /\ ~call_result.success
            /\ call_result.error = Some(TimeoutText(ConfiguredTimeout))

\* The body of a 200 response breaks while it is read.
BodyBreaks(o) ==
    /\ o.kind = "response"
    /\ o.status = 200
    /\ \E i \in DOMAIN o.body :
           /\ o.body[i].kind = "broken"
           /\ \A j \in 1..(i - 1) : ~GetDone(o.body[j])

\* C15: a request is sent again only after a response of status 500, 502,
\* 503 or 504, at most 3 times per call, and never after a response whose
\* body has begun to arrive: a failure while a streamed body is read ends
\* the call with an error.
C15_RetryPolicy ==
    /\ \A i \in 1..(Len(sent) - 1) :
           sent[i].kind = "response" /\ sent[i].status \in status_forcelist
    /\ Len(sent) <= 1 + retry_total
    /\ \A i \in 1..(Len(sent) - 1) :
           ~(sent[i].kind = "response" /\ sent[i].status = 200)
    /\ (cpc = "returned" /\ call_stream /\ BodyBreaks(LastSent)) =>
           ~call_result.success /\ call_result.error.some
    /\ (cpc = "streaming" /\ spc = "closed" /\ BodyBreaks(LastSent)) =>
           chunks[Len(chunks)].done /\ chunks[Len(chunks)].error.some

\* C16: on a final 404 response generate returns success=false with
\* status_code 404, generate_stream yields exactly one chunk, with done=true
\* and error set, and then ends; in both the error text names the requested
\* model, the configured default when the caller passed none.
C16_ModelNotFound ==
    (cpc \in {"returned", "streaming"}
        /\ LastSent.kind = "response" /\ LastSent.status = 404) =>
        /\ cpc = "returned" =>
            /\ ~call_result.success
            /\ call_result.status_code = SomeInt(404)
            /\ call_result.error.some
            /\ Contains(call_result.error.v, <<RequestedModel>>)
        /\ cpc = "streaming" =>
            /\ spc = "closed"
            /\ Len(chunks) = 1
            /\ chunks[1].done
            /\ chunks[1].error.some
            /\ Contains(chunks[1].error.v, <<RequestedModel>>)

C16_Witness ==
    /\ cpc = "streaming"
    /\ LastSent.kind = "response"
    /\ LastSent.status = 404
    /\ call_model = None
    /\ Len(chunks) = 1
    /\ Contains(chunks[1].error.v, <<"Model '", MODEL_NAME, "' not found. ">>)

(***************************************************************************)
(* Properties of ToolRegistry.parse_tool_call (specification SpecParse)    *)
(***************************************************************************)

\* The tokens i..j of t are a syntactically valid tool-call JSON object: an
\* object with a "tool" member whose value is a string.
ValidCallAt(t, i, j) ==
    /\ t[i] = "{"
    /\ t[j] = "}"
    /\ LET d == JsonLoads(SubSeq(t, i, j))
       IN  /\ d.ok
           /\ HasKey(d.val, "tool")
           /\ GetKey(d.val, "tool").k = "str"

CallName(t, i, j) == GetKey(JsonLoads(SubSeq(t, i, j)).val, "tool")

CallSpans(t) ==
    {ij \in (1..Len(t)) \X (1..Len(t)) : ij[1] < ij[2] /\ ValidCallAt(t, ij[1], ij[2])}

\* C17 as stated: whenever the response contains a syntactically valid
\* tool-call JSON object, bare or fenced, parse_tool_call returns a non-null
\* tool name, equal to the "tool" value of such an object.
C17_Original ==
    (ppc = "parsed" /\ CallSpans(parse_input) # {}) =>
        /\ parse_result.tool # JNull
        /\ \E ij \in CallSpans(parse_input) :
               parse_result.tool = CallName(parse_input, ij[1], ij[2])

\* The call at i..j is bare: the response has no code fence, no "{" before
\* the call and no "}" after it.
BareCall(t, i, j) ==
    /\ \A m \in 1..Len(t) : t[m] \notin Fences
    /\ \A m \in 1..(i - 1) : t[m] # "{"
    /\ \A m \in (j + 1)..Len(t) : t[m] # "}"

\* The marker that opens the block parse_tool_call looks into: the first
\* json-annotated one if there is one, the first one otherwise.
OpeningFence(t) ==
    IF \E m \in 1..Len(t) : t[m] = "<fence>json"
    THEN CHOOSE m \in 1..Len(t) :
             t[m] = "<fence>json" /\ \A n \in 1..(m - 1) : t[n] # "<fence>json"
    ELSE CHOOSE m \in 1..Len(t) :
             t[m] \in Fences /\ \A n \in 1..(m - 1) : t[n] \notin Fences

\* The call at i..j is fenced: it lies in the first fenced block, with no
\* "{" before it and no "}" after it inside the block.
FencedCall(t, i, j) ==
    /\ \E m \in 1..Len(t) : t[m] \in Fences
    /\ LET a == OpeningFence(t)
       IN  /\ a < i
           /\ \E b \in (j + 1)..Len(t) :
                  /\ t[b] \in Fences
                  /\ \A m \in (a + 1)..(b - 1) : t[m] \notin Fences
                  /\ \A m \in (a + 1)..(i - 1) : t[m] # "{"
                  /\ \A m \in (j + 1)..(b - 1) : t[m] # "}"

\* C17 (amended): when the response holds a syntactically valid tool-call
\* JSON object with a string "tool" value, either bare (no code fence in the
\* response, no "{" before the object and no "}" after it) or inside the
\* first fenced block (the first json-annotated block if there is one, with
\* no "{" before it and no "}" after it inside the block), parse_tool_call
\* returns a non-null tool name equal to the "tool" value.
C17_CallIsParsed ==
    ppc = "parsed" =>
        \A ij \in CallSpans(parse_input) :
            (BareCall(parse_input, ij[1], ij[2]) \/ FencedCall(parse_input, ij[1], ij[2])) =>
                /\ parse_result.tool # JNull
                /\ parse_result.tool = CallName(parse_input, ij[1], ij[2])

C17_Witness ==
    /\ ppc = "parsed"
    /\ parse_input = <<"Sure", " ", "<fence>json", "\n">>
                        \o CallOf(<<"\"web_search\"">>, RainQuery)
                        \o <<"\n", "<fence>", " ", "done", "}">>
    /\ parse_result.tool = JStr("web_search")

\* C18: for a text that does not contain "tool" (with its double quotes)
\* after fence extraction, parse_tool_call returns (None, None) and does
\* not call the JSON decoder.
C18_NoToolNoDecoding ==
    (/\ ppc = "parsed"
     /\ \A m \in DOMAIN StripFence(Strip(parse_input)) :
            StripFence(Strip(parse_input))[m] # "\"tool\"") =>
        /\ parse_result = NoToolCall
        /\ decoder_calls = 0
        /\ parse_exc = ""

C18_Witness ==
    /\ ppc = "parsed"
    /\ parse_input = CallOf(<<"\"web_search\"">>, RainQuery) \o <<" ", "<fence>", "x", "<fence>">>
    /\ parse_result = NoToolCall
    /\ decoder_calls = 0

\* The text parse_tool_call hands to the decoder: from the first "{" to the
\* last "}" of the text left by fence extraction.
DecodedSpan(text) ==
    LET t == StripFence(Strip(text))
        first == CHOOSE m \in 1..Len(t) : t[m] = "{" /\ \A n \in 1..(m - 1) : t[n] # "{"
        last == CHOOSE m \in 1..Len(t) : t[m] = "}" /\ \A n \in (m + 1)..Len(t) : t[n] # "}"
    IN  SubSeq(t, first, last)

\* C19: parse_tool_call never raises; it returns (None, None) when decoding
\* fails or the decoded object has no "tool" member, and otherwise the
\* "tool" value with the "parameters" value, or with an empty mapping when
\* "parameters" is absent.
C19_ParseNeverRaises ==
    ppc = "parsed" =>
        /\ parse_exc = ""
        /\ decoder_calls = 0 => parse_result = NoToolCall
        /\ decoder_calls = 1 =>
               LET d == JsonLoads(DecodedSpan(parse_input))
               IN  IF ~d.ok \/ ~HasKey(d.val, "tool")
                   THEN parse_result = NoToolCall
                   ELSE /\ parse_result.tool = GetKey(d.val, "tool")
                        /\ parse_result.parameters =
                               IF HasKey(d.val, "parameters")
                               THEN GetKey(d.val, "parameters")
                               ELSE JObj(<<>>)

C19_Witness ==
    /\ ppc = "parsed"
    /\ parse_input = <<"{", "\"tool\"", ":", "\"web_search\"", "}">>
    /\ parse_result = [tool |-> JStr("web_search"), parameters |-> JObj(<<>>)]

(***************************************************************************)
(* Properties of ToolRegistry.register (specification SpecRegistry)        *)
(***************************************************************************)

\* C20: register of a descriptor whose name is already registered raises and
\* leaves the registry as it was: the name maps to the descriptor it mapped
\* to before, and list_tools and the manifest are unchanged.
C20_DuplicateRegisterFails ==
    (reg_op = "register" /\ reg_arg.name \in ToolNames(reg_before)) =>
        /\ reg_raised.some
        /\ tools = reg_before
        /\ GetTool(tools, reg_arg.name) = GetTool(reg_before, reg_arg.name)
        /\ list_tools(tools) = list_tools(reg_before)
        /\ format_tools_for_prompt(tools) = format_tools_for_prompt(reg_before)

C20_Witness ==
    /\ reg_op = "register"
    /\ reg_arg = OtherSearchToolEntry
    /\ reg_before = <<WebSearchToolEntry, BoomToolEntry>>
    /\ reg_raised = Some(<<"Tool '", "web_search", "' already registered">>)
    /\ GetTool(tools, "web_search") = WebSearchToolEntry


\* C21: execute with a name that is not registered fails with an error and
\* invokes no handler; with a registered name it invokes the handler
\* registered under that name, once and no other, and returns what the
\* handler returns; an exception of the handler leaves execute uncaught.
C21_ExecuteDispatch ==
    reg_op = "execute" =>
        IF exec_name \notin ToolNames(tools)
        THEN exec_end.raised /\ exec_end.invoked = <<>>
        ELSE /\ exec_end.invoked = <<GetTool(tools, exec_name).function>>
             /\ exec_end.raised = handler_end.raised
             /\ exec_end.value = handler_end.text

C21_Witness ==
    /\ reg_op = "execute"
    /\ exec_name = "boom"
    /\ tools = <<WebSearchToolEntry, BoomToolEntry>>
    /\ exec_end = [invoked |-> <<"raising">>, raised |-> TRUE, value |-> <<"boom error">>]


(***************************************************************************)
(* Properties of the manifest (specification Spec)                         *)
(***************************************************************************)

\* text ends with suf.
EndsWith(text, suf) ==
    Len(suf) <= Len(text) /\ SubSeq(text, Len(text) - Len(suf) + 1, Len(text)) = suf

\* The tool entries of a manifest, in the order they are listed: the name
\* and the description of each "- name: description" line.
ManifestEntries(m) ==
    LET F[i \in 0..Len(m)] ==
            IF i = 0 THEN <<>>
            ELSE IF m[i] = "- " /\ i + 3 <= Len(m)
                 THEN Append(F[i - 1], <<m[i + 1], m[i + 3]>>)
                 ELSE F[i - 1]
    IN  F[Len(m)]

RegisteredEntries(reg) == [i \in 1..Len(reg) |-> <<reg[i].name, reg[i].description>>]

\* The instruction shows the call shape {"tool": ..., "parameters": {...}}.
InstructionGivesCallShape(m) ==
    Contains(m, <<"{", "\"tool\"", ":", "\"tool_name\"", ",", "\"parameters\"", ":">>)

\* C22: with tools enabled the first-stage prompt of a turn begins with the
\* manifest, which is the same whenever it is formatted for the same
\* registry; for a registry with at least one tool it lists the registered
\* descriptors in registration order and ends with the fixed instruction
\* giving the JSON call shape, and for an empty registry it is empty.
C22_Manifest ==
    (pc # "idle" /\ use_tools) =>
        /\ system_prompt = format_tools_for_prompt(tools)
        /\ StartsWith(calls[1].prompt, format_tools_for_prompt(tools))
        /\ IF tools = <<>>
           THEN system_prompt = <<>>
           ELSE /\ ManifestEntries(system_prompt) = RegisteredEntries(tools)
                /\ EndsWith(system_prompt, ManifestInstruction)
                /\ InstructionGivesCallShape(system_prompt)

C22_Witness ==
    /\ pc = "first"
    /\ use_tools
    /\ tools = <<WebSearchToolEntry, BoomToolEntry>>
    /\ ManifestEntries(system_prompt) =
           << <<"web_search", "Search the web using DuckDuckGo.">>, <<"boom", "Always fails.">> >>
    /\ StartsWith(calls[1].prompt, system_prompt)

\* C22 as stated: the manifest of every registry lists the descriptors and
\* is followed by the fixed instruction.
C22_Original ==
    (pc # "idle" /\ use_tools) =>
        /\ StartsWith(calls[1].prompt, format_tools_for_prompt(tools))
        /\ ManifestEntries(system_prompt) = RegisteredEntries(tools)
        /\ EndsWith(system_prompt, ManifestInstruction)
        /\ InstructionGivesCallShape(system_prompt)


(***************************************************************************)
(* Properties of the search result processors (specification               *)
(* SpecProcessor)                                                          *)
(***************************************************************************)

\* The sentences of the text passed to the last call.
InputSentences == Sentences(proc_input)

\* No sentence was taken although there are sentences: the call returned a
\* single cut segment.
SingleSegmentFallback ==
    /\ Len(InputSentences) > 0
    /\ TakeWithin(SortByScore(proc_query, InputSentences), proc_max_length) = <<>>

\* C23: the output of ExtractionProcessor.process has at most max_length
\* characters, or at most max_length + 3 when it is the single-segment
\* fallback.
C23_ExtractionLength ==
    proc = "extraction" =>
        Len(proc_out) <= proc_max_length + (IF SingleSegmentFallback THEN 3 ELSE 0)

\* No sentence of the text fits within max_length.
NoSegmentFits ==
    /\ Len(InputSentences) > 0
    /\ \A i \in 1..Len(InputSentences) : Len(InputSentences[i]) > proc_max_length

\* The sentence of the highest score, the first of them in the text when
\* several have it.
HighestScored ==
    LET sc == [i \in 1..Len(InputSentences) |-> Score(proc_query, InputSentences[i])]
    IN  InputSentences[CHOOSE i \in 1..Len(InputSentences) :
                           \A j \in 1..Len(InputSentences) :
                               sc[j] < sc[i] \/ (sc[j] = sc[i] /\ i <= j)]

\* C24: when no segment fits within max_length, process returns the
\* highest-scored segment, the first of equal scores in original order, cut
\* to max_length characters and followed by '...'.
C24_FallbackIsHighestScored ==
    (proc = "extraction" /\ NoSegmentFits) =>
        proc_out = Prefix(HighestScored, proc_max_length) \o "..."

\* C25: the output of SimpleProcessor.process has at most max_length
\* characters, the ellipsis included.
C25_SimpleLength ==
    proc = "simple" => Len(proc_out) <= proc_max_length

\* C26: SimpleProcessor.process returns a text of at most max_length
\* characters unchanged, and applying it to what it returned returns the
\* same text again.
C26_ShortTextUnchanged ==
    (proc = "simple" /\ Len(proc_text) <= proc_max_length) =>
        /\ proc_out = proc_text
        /\ proc_input = proc_text

C26_Witness ==
    /\ proc = "simple"
    /\ proc_calls = 2
    /\ proc_text = "sunny today"
    /\ proc_max_length = 11
    /\ proc_out = "sunny today"

\* The secondary call failed: it timed out or raised, answered with a
\* status other than 200, or its body could not be used.
SummaryFailed ==
    \/ proc_reply.kind # "response"
    \/ proc_reply.status # 200
    \/ ~proc_reply.json_ok
    \/ proc_reply.val.k # "obj"

\* C27: SmallModelProcessor.process never raises; when the secondary call
\* times out, answers with a status other than 200 or raises any
\* exception, it returns the first 200 characters of the text followed by
\* '...'.
C27_SmallModelNeverRaises ==
    proc = "small_model" =>
        /\ proc_raised = ""
        /\ SummaryFailed => proc_out = Prefix(proc_text, FallbackLength) \o "..."

C27_Witness ==
    /\ proc = "small_model"
    /\ proc_reply = SummaryReply("response", 200, TRUE, JList(<<>>))
    /\ Len(proc_text) = 210
    /\ Len(proc_out) = 203
    /\ proc_raised = ""


(***************************************************************************)
(* Properties of the timing record (specification Spec)                    *)
(***************************************************************************)

\* C29: when chat has returned, every field of its timing record is
\* non-negative and total is at least the sum of initial_thinking,
\* tool_execution and final_answer, whether or not timing display is
\* enabled.
C29_TimingTotal ==
    pc = "done" =>
        /\ timing.initial_thinking >= 0
        /\ timing.tool_execution >= 0
        /\ timing.final_answer >= 0
        /\ timing.total >= 0
        /\ timing.total >= timing.initial_thinking + timing.tool_execution + timing.final_answer


(***************************************************************************)
(* Properties of a chat session (specification SpecSession)                *)
(***************************************************************************)

\* C28: when a chat call has been left, by a return or by an exception,
\* every LoadingIndicator it started is stopped and its thread joined.
C28_LoadersStopped ==
    pc \in {"done", "raised", "interrupted"} =>
        \A i \in 1..Len(loaders) :
            ~loaders[i].is_running /\ loaders[i].thread = "joined"

\* C30: the session ends only on 'quit', 'exit', 'bye' or a keyboard
\* interrupt: a turn that fails does not end it.
C30_SessionEnds ==
    session = "ended" =>
        \/ end_reason = "quit" /\ Lower(StripStr(last_input)) \in QuitWords
        \/ end_reason = "interrupt"


(***************************************************************************)
(* WebSearchTool and the processing method of the configuration            *)
(***************************************************************************)

\* config.py line 79: config.search.max_description_length.
max_description_length == 150

\* The values of SearchProcessingMethod.
ProcessingMethods == {"extraction", "small_model", "simple"}

\* SearchProcessorFactory.create_processor(method, ...): the kind of the
\* processor built for a method.
create_processor(m) ==
    CASE m = "extraction" -> "extraction"
      [] m = "small_model" -> "small_model"
      [] OTHER -> "simple"

\* processor.process(body, query) of the processor of a kind, built with
\* max_length = config.search.max_description_length.
process(kind, body, query, reply) ==
    CASE kind = "extraction" -> extraction_process(body, query, max_description_length)
      [] kind = "small_model" -> small_model_process(reply, body).out
      [] OTHER -> simple_process(body, max_description_length)

\* ChatBot(): create_default_registry(config) builds WebSearchTool(config),
\* whose __init__ creates the processor from the configuration of that time.
ChatBotInit ==
    /\ bot = "none"
    /\ bot' = "built"
    /\ tool_processor' = create_processor(cfg_method)
    /\ UNCHANGED <<cfg_method, search_cfg, search_by, search_body, search_query,
                   search_reply, search_out>>

\* Config.set_search_processing(method)
set_search_processing(m) ==
    /\ cfg_method' = m
    /\ UNCHANGED <<bot, tool_processor, search_cfg, search_by, search_body,
                   search_query, search_reply, search_out>>

\* Bodies and queries of a search.
SearchBodies ==
    { "ok",
      "sunny today. rain is expected tomorrow. Heavy Rain tonight",
      Repeat("0123456 89", 21) }

SearchQueries == { "rain tomorrow", "Tonight" }

\* WebSearchTool.search(query) with one result: the body is processed by
\* self.processor.
WebSearchSearch(body, query, reply) ==
    /\ bot = "built"
    /\ search_cfg' = cfg_method
    /\ search_by' = tool_processor
    /\ search_body' = body
    /\ search_query' = query
    /\ search_reply' = reply
    /\ search_out' = process(tool_processor, body, query, reply)
    /\ UNCHANGED <<cfg_method, bot, tool_processor>>

InitSearch ==
    /\ ChatIdle
    /\ ui_config = DefaultUIConfig
    /\ tools = <<WebSearchToolEntry>>
    /\ StreamIdle
    /\ ClientIdle
    /\ RegistryIdle
    /\ ParseIdle
    /\ parse_input = <<>>
    /\ ProcessorIdle
    /\ NoProcessorInput
    /\ SessionIdle
    /\ ExtraIdle

OtherThanSearch ==
    <<chatVars, streamVars, clientVars, registryVars, parseVars, processorVars,
      sessionVars, lookupVars, scriptVars, loaderVars>>

NextSearch ==
    \/ ChatBotInit /\ UNCHANGED OtherThanSearch
    \/ \E m \in ProcessingMethods : set_search_processing(m) /\ UNCHANGED OtherThanSearch
    \/ \E body \in SearchBodies, query \in SearchQueries,
          reply \in (IF tool_processor = "small_model" THEN SummaryReplies ELSE {NoSummaryReply}) :
           WebSearchSearch(body, query, reply) /\ UNCHANGED OtherThanSearch

SpecSearch == InitSearch /\ [][NextSearch]_vars

\* C31: once a ChatBot is constructed, a web search processes its results
\* with the method the configuration holds when the search runs: the method
\* of the last set_search_processing call.
C31_SearchUsesConfiguredMethod ==
    search_by # "none" =>
        /\ search_by = create_processor(search_cfg)
        /\ search_out = process(create_processor(search_cfg), search_body,
                                search_query, search_reply)


(***************************************************************************)
(* The text parse_tool_call examines (specification SpecParse)             *)
(***************************************************************************)

\* The markers after the opening one.
ClosingFences(t) == {b \in (OpeningFence(t) + 1)..Len(t) : t[b] \in Fences}

\* The response has a fenced block that is closed: a marker follows the
\* opening one (the first json-annotated marker if there is one, the first
\* marker otherwise).
ClosedBlock(t) ==
    /\ \E m \in 1..Len(t) : t[m] \in Fences
    /\ ClosingFences(t) # {}

\* The interior of the closed block: from the opening marker to the first
\* marker after it.
BlockInterior(t) ==
    LET b == CHOOSE c \in ClosingFences(t) : \A d \in ClosingFences(t) : c <= d
    IN  SubSeq(t, OpeningFence(t) + 1, b - 1)

\* The text left after fence extraction.
ExaminedText(t) == IF ClosedBlock(t) THEN BlockInterior(t) ELSE t

Braces(t, brace) == {m \in 1..Len(t) : t[m] = brace}

\* The tokens from the first "{" to the last "}".
BraceSpan(t) ==
    LET first == CHOOSE m \in Braces(t, "{") : \A n \in Braces(t, "{") : m <= n
        last == CHOOSE m \in Braces(t, "}") : \A n \in Braces(t, "}") : n <= m
    IN  SubSeq(t, first, last)

\* What parse_tool_call returns for a decoded text.
ResultOfDecoding(d) ==
    IF ~d.ok \/ ~HasKey(d.val, "tool") THEN NoToolCall
    ELSE [tool |-> GetKey(d.val, "tool"),
          parameters |-> IF HasKey(d.val, "parameters")
                         THEN GetKey(d.val, "parameters")
                         ELSE JObj(<<>>)]

\* C32: parse_tool_call decodes exactly the tokens from the first "{" to the
\* last "}" of the text left after fence extraction, and its result is the
\* result of that decoding. With a closed fenced block (the json-annotated
\* marker taking precedence over the bare one) the text left is the
\* interior of the block, so a call outside it is not detected; when the
\* fence is never closed it is the whole text.
C32_DecodesBraceSpanOfExaminedText ==
    ppc = "parsed" =>
        LET x == ExaminedText(parse_input)
        IN  /\ decoder_calls = 1 =>
                   /\ Braces(x, "{") # {}
                   /\ Braces(x, "}") # {}
                   /\ parse_result = ResultOfDecoding(JsonLoads(BraceSpan(x)))
            /\ decoder_calls = 0 => parse_result = NoToolCall
            /\ decoder_calls = 1 <=>
                   /\ \E m \in 1..Len(x) : x[m] = "\"tool\""
                   /\ \E m \in Braces(x, "{"), n \in Braces(x, "}") :
                          /\ m < n
                          /\ \A o \in Braces(x, "{") : m <= o
                          /\ \A o \in Braces(x, "}") : o <= n
            /\ (ClosedBlock(parse_input) /\ parse_result.tool # JNull) =>
                   /\ Braces(BlockInterior(parse_input), "{") # {}
                   /\ Braces(BlockInterior(parse_input), "}") # {}
                   /\ parse_result =
                          ResultOfDecoding(JsonLoads(BraceSpan(BlockInterior(parse_input))))
            /\ (ClosedBlock(parse_input) /\ Braces(BlockInterior(parse_input), "{") = {}) =>
                   parse_result = NoToolCall
            /\ (~ClosedBlock(parse_input) /\ decoder_calls = 1) =>
                   parse_result = ResultOfDecoding(JsonLoads(BraceSpan(parse_input)))

\* A valid call stands after a closed block that holds none: it is not
\* detected.
C32_Witness ==
    /\ ppc = "parsed"
    /\ parse_input = <<"<fence>", "x", "<fence>", " ">> \o CallOf(<<"\"web_search\"">>, RainQuery)
    /\ ClosedBlock(parse_input)
    /\ CallSpans(parse_input) # {}
    /\ parse_result = NoToolCall


(***************************************************************************)
(* One turn is bounded (specification Spec)                                *)
(***************************************************************************)

\* The second generate has returned.
SecondReturned == pc = "done" /\ Len(calls) = 2

\* C35: one chat turn issues at most two generate calls and executes at most
\* one tool; the text of the second-stage response is returned as it is and
\* is never parsed for a further tool call, also when it is a well-formed
\* call of a registered tool.
C35_TurnIsBounded ==
    /\ Len(calls) <= 2
    /\ Count("generate") <= 2
    /\ Count("execute") <= 1
    /\ Count("handler") <= 1
    /\ Count("tool_done") <= 1
    /\ Count("parse_tool_call") <= 1
    /\ (SecondReturned /\ final_response.success) =>
           /\ answer = final_response.text
           /\ Count("parse_tool_call") = 1
           /\ \A i \in DOMAIN trace :
                  trace[i] = "parse_tool_call" => i < RFind(trace, {"generate"})

\* The second-stage response is a well-formed call of a registered tool.
C35_Witness ==
    /\ SecondReturned
    /\ final_response.success
    /\ final_response.text = CallOf(<<"\"web_search\"">>, RainQuery)
    /\ has_tool(tools, parse_tool_call(final_response.text).tool)
    /\ answer = final_response.text
    /\ Count("execute") = 1


(***************************************************************************)
(* The result of OllamaClient.generate (specification SpecClient)          *)
(***************************************************************************)

GenerateReturned == cpc = "returned" /\ method = "generate"

\* C36: generate returns a ModelResponse whatever becomes of the request (a
\* transport failure, any status, an undecodable body). A response with
\* success=false has an empty text and an error; the text received before a
\* streamed body failed is discarded. A response with success=true has
\* status_code 200 and no error.
C36_ResultInvariants ==
    /\ (cpc = "sending" /\ method = "generate") =>
           \A o \in Attempts :
               RetryDecision(retries_left, o) # "resend" =>
                   LET r == generate(SessionPost(retries_left, o), call_model,
                                     call_stream, call_timeout)
                   IN  /\ r.success \in BOOLEAN
                       /\ ~r.success => r.text = <<>> /\ r.error.some
    /\ GenerateReturned =>
           /\ ~call_result.success =>
                  /\ call_result.text = <<>>
                  /\ call_result.error.some
           /\ call_result.success =>
                  /\ call_result.status_code = SomeInt(200)
                  /\ call_result.error = None
                  /\ LastSent.kind = "response"
                  /\ LastSent.status = 200

\* A streamed body breaks after a line with text.
C36_Witness ==
    /\ GenerateReturned
    /\ call_stream
    /\ LastSent.kind = "response"
    /\ LastSent.status = 200
    /\ LastSent.body = <<ObjLine(<<"Hel">>, FALSE), BrokenLine>>
    /\ ~call_result.success
    /\ call_result.text = <<>>
    /\ call_result.error.some


\* The texts of the lines of a body that decode to an object, concatenated in
\* body order.
RECURSIVE ObjectTexts(_)
ObjectTexts(body) ==
    IF body = <<>> THEN <<>>
    ELSE (IF Head(body).kind = "obj" THEN GetResponse(Head(body)) ELSE <<>>)
             \o ObjectTexts(Tail(body))

\* The body was received to its end and none of its lines carries done=true.
EndsWithoutDone(body) ==
    \A i \in DOMAIN body :
        /\ body[i].kind # "broken"
        /\ ~(body[i].kind = "obj" /\ GetDone(body[i]))

\* C38: generate with stream=True, on a 200 response whose body ends without
\* a line carrying done=true, returns success=true and done=true with the
\* concatenation of the texts of the well-formed lines received.
C38_BodyWithoutDoneSucceeds ==
    (/\ GenerateReturned
     /\ call_stream
     /\ LastSent.kind = "response"
     /\ LastSent.status = 200
     /\ EndsWithoutDone(LastSent.body)) =>
        /\ call_result.success
        /\ call_result.done
        /\ call_result.text = ObjectTexts(LastSent.body)


(***************************************************************************)
(* The registry only grows (specification SpecRegistry)                    *)
(***************************************************************************)

\* C37: the registry only grows: no register, get, has_tool, list_tools,
\* execute, format_tools_for_prompt or parse_tool_call call removes a
\* registered tool or changes the descriptor a name maps to.
C37_RegistryOnlyGrows ==
    [][/\ \A name \in ToolNames(tools) :
             /\ name \in ToolNames(tools')
             /\ GetTool(tools', name) = GetTool(tools, name)
       /\ Len(tools') >= Len(tools)
       /\ SubSeq(list_tools(tools'), 1, Len(tools)) = list_tools(tools)]_vars

\* A name was registered again with another descriptor after the other
\* operations had run, and maps to the descriptor registered first.
C37_Witness ==
    /\ reg_op = "register"
    /\ Len(tools) >= 2
    /\ reg_arg.name \in ToolNames(reg_before)
    /\ reg_arg # GetTool(reg_before, reg_arg.name)
    /\ GetTool(tools, reg_arg.name) = GetTool(reg_before, reg_arg.name)
    /\ reg_value # <<>>
    /\ exec_name # ""


(***************************************************************************)
(* start.chat: one turn of the single-file script                          *)
(***************************************************************************)

\* TOOLS of start.py: web_search only.
ScriptTools ==
    << Tool("web_search",
            "Search the web using DuckDuckGo. Use this when you need current information, facts, or data that you don't have in your knowledge base.",
            << <<"query", "The search query string">>,
               <<"max_results", "Maximum number of results (default: 3)">> >>,
            "web_search") >>

\* str(e) of what the generic handler of start.chat catches.
ScriptExcText(what) ==
    CASE what = "timeout" -> <<"HTTPConnectionPool(host='localhost', port=11434): Read timed out.">>
      [] what = "json" -> <<"Expecting value: line 1 column 1 (char 0)">>
      [] what = "attr" -> <<"'int' object has no attribute 'get'">>
      [] what = "unhashable" -> <<"unhashable type: 'list'">>
      [] OTHER -> <<"request failed">>

ScriptCannotConnect ==
    <<"Error: Cannot connect to Ollama. Is it running? (Check with: systemctl status ollama)">>

ScriptModelNotFound(m) ==
    <<"Error: Model '", m, "' not found!\n",
      "Run 'ollama list' to see installed models.\n",
      "Or pull the model with: ollama pull ", m>>

\* The answer of the handlers of lines 344-351 for a requests.post that
\* raised.
ScriptRaisedAnswer(reply) ==
    IF reply.kind = "connection_error" THEN ScriptCannotConnect
    ELSE <<"Error: ">> \o ScriptExcText(reply.kind)

\* result.get('response', 'No response') of a body that decodes to a dict.
ScriptResponseText(body) ==
    LET ne == SelectSeq(body, LAMBDA l : l.kind # "empty")
    IN  IF ne[1].has_response THEN ne[1].response ELSE <<"No response">>

\* Lines 301-302: the ways tool_func(**parameters) ends. web_search catches
\* what the search raises; the call itself raises TypeError when parameters
\* is no mapping or does not fit web_search(query, max_results=3).
ScriptToolEnds(params) ==
    IF params.k # "obj"
    THEN {ScriptToolEnd(FALSE, TRUE, <<"argument after ** must be a mapping">>)}
    ELSE IF "query" \in DictKeys(params) /\ DictKeys(params) \subseteq {"query", "max_results"}
    THEN {ScriptToolEnd(TRUE, FALSE, r) : r \in SearchResults}
    ELSE IF "query" \notin DictKeys(params)
    THEN {ScriptToolEnd(FALSE, TRUE,
                        <<"web_search() missing 1 required positional argument: 'query'">>)}
    ELSE {ScriptToolEnd(FALSE, TRUE, <<"web_search() got an unexpected keyword argument">>)}

\* Lines 263-283: chat(prompt, show_loading, use_tools) builds the prompt,
\* starts the indicator and issues the first request.
ScriptChatStart(p, sl, ut) ==
    /\ script_pc = "idle"
    /\ script_pc' = "first"
    /\ script_prompt' = p
    /\ script_use_tools' = ut
    /\ script_loader' = IF sl THEN "running" ELSE "none"
    /\ script_posts' = <<FirstPrompt(format_tools_for_prompt(ScriptTools), p, ut)>>
    /\ UNCHANGED <<script_reply, script_text, script_call, script_tool_end,
                   script_final, script_answer>>

\* Lines 283-299, 335-342 and 344-351: the first request ends.
ScriptFirstResponse(reply) ==
    /\ script_pc = "first"
    /\ script_reply' = reply
    /\ script_loader' = IF script_loader = "running" THEN "stopped" ELSE script_loader
    /\ UNCHANGED <<script_prompt, script_use_tools, script_posts, script_tool_end,
                   script_final>>
    /\ IF reply.kind # "response"
       THEN /\ script_pc' = "done"
            /\ script_answer' = ScriptRaisedAnswer(reply)
            /\ UNCHANGED <<script_text, script_call>>
       ELSE IF reply.status = 404
       THEN /\ script_pc' = "done"
            /\ script_answer' = ScriptModelNotFound(MODEL_NAME)
            /\ UNCHANGED <<script_text, script_call>>
       ELSE IF reply.status # 200
       THEN /\ script_pc' = "done"
            /\ script_answer' = <<"Error: HTTP ", ToString(reply.status), " - ">>
                                    \o RawText(reply.body)
            /\ UNCHANGED <<script_text, script_call>>
       ELSE IF BodyJson(reply.body) # "dict"
       THEN /\ script_pc' = "done"
            /\ script_answer' =
                   <<"Error: ">> \o ScriptExcText(IF BodyJson(reply.body) = "other"
                                                  THEN "attr" ELSE "json")
            /\ UNCHANGED <<script_text, script_call>>
       ELSE LET text == ScriptResponseText(reply.body)
                call == parse_tool_call(text)
            IN  /\ script_text' = text
                /\ script_call' = IF script_use_tools THEN call ELSE script_call
                /\ IF ~script_use_tools \/ ~Truthy(call.tool)
                   THEN script_pc' = "done" /\ script_answer' = text
                   ELSE IF ~Hashable(call.tool)
                   THEN /\ script_pc' = "done"
                        /\ script_answer' = <<"Error: ">> \o ScriptExcText("unhashable")
                   ELSE IF has_tool(ScriptTools, call.tool)
                   THEN script_pc' = "tool" /\ UNCHANGED script_answer
                   ELSE script_pc' = "done" /\ script_answer' = text

\* Lines 301-326 and 348-351: the tool function is called; when it returns,
\* the indicator is started again and the second request is issued; when the
\* call raises, the generic handler returns.
ScriptToolCall(end) ==
    /\ script_pc = "tool"
    /\ end \in ScriptToolEnds(script_call.parameters)
    /\ script_tool_end' = end
    /\ UNCHANGED <<script_prompt, script_use_tools, script_reply, script_text,
                   script_call, script_final>>
    /\ IF end.raised
       THEN /\ script_pc' = "done"
            /\ script_answer' = <<"Error: ">> \o end.text
            /\ UNCHANGED <<script_posts, script_loader>>
       ELSE /\ script_pc' = "second"
            /\ script_posts' =
                   Append(script_posts,
                          FollowUpPrompt(format_tools_for_prompt(ScriptTools),
                                         script_prompt, script_text, end.text))
            /\ script_loader' = IF script_loader = "none" THEN "none" ELSE "running"
            /\ UNCHANGED script_answer

\* Lines 326-335 and 344-351: the second request ends.
ScriptSecondResponse(reply) ==
    /\ script_pc = "second"
    /\ script_pc' = "done"
    /\ script_final' = reply
    /\ script_loader' = IF script_loader = "running" THEN "stopped" ELSE script_loader
    /\ script_answer' =
           IF reply.kind # "response" THEN ScriptRaisedAnswer(reply)
           ELSE IF reply.status # 200 THEN script_text
           ELSE IF BodyJson(reply.body) # "dict"
           THEN <<"Error: ">> \o ScriptExcText(IF BodyJson(reply.body) = "other"
                                               THEN "attr" ELSE "json")
           ELSE ScriptResponseText(reply.body)
    /\ UNCHANGED <<script_prompt, script_use_tools, script_posts, script_reply,
                   script_text, script_call, script_tool_end>>

\* First-stage texts and what requests.post does.
ScriptTexts ==
    { <<"Hi there!">>,
      CallOf(<<"\"web_search\"">>, RainQuery),
      CallOf(<<"\"web_search\"">>, <<"{", "\"name\"", ":", "\"rain\"", "}">>),
      CallOf(<<"\"web_search\"">>, <<"null">>),
      <<"{", "\"tool\"", ":", "\"web_search\"", "}">>,
      CallOf(<<"\"nope\"">>, RainQuery),
      CallOf(<<"[", "\"web_search\"", "]">>, RainQuery) }

ScriptReplies ==
    { Post("timeout", 0, <<>>), Post("connection_error", 0, <<>>),
      Post("response", 404, <<BadLine>>), Post("response", 500, <<BadLine>>),
      Post("response", 200, <<BadLine>>), Post("response", 200, <<ScalarLine>>),
      Post("response", 200, <<Line("obj", FALSE, <<>>, TRUE, TRUE)>>) }
    \cup { Post("response", 200, <<ObjLine(r, TRUE)>>) : r \in ScriptTexts \cup {<<"It's sunny">>} }

InitScript ==
    /\ ChatIdle
    /\ ui_config = DefaultUIConfig
    /\ tools = <<WebSearchToolEntry>>
    /\ StreamIdle
    /\ ClientIdle
    /\ RegistryIdle
    /\ ParseIdle
    /\ parse_input = <<>>
    /\ ProcessorIdle
    /\ NoProcessorInput
    /\ SessionIdle
    /\ ExtraIdle

OtherThanScript ==
    <<chatVars, streamVars, clientVars, registryVars, parseVars, processorVars,
      sessionVars, searchVars, lookupVars, loaderVars>>

NextScript ==
    \/ \E p \in UserTexts, sl \in BOOLEAN, ut \in BOOLEAN :
           ScriptChatStart(p, sl, ut) /\ UNCHANGED OtherThanScript
    \/ \E reply \in ScriptReplies : ScriptFirstResponse(reply) /\ UNCHANGED OtherThanScript
    \/ \E end \in ScriptToolEnds(script_call.parameters) :
           ScriptToolCall(end) /\ UNCHANGED OtherThanScript
    \/ \E reply \in ScriptReplies : ScriptSecondResponse(reply) /\ UNCHANGED OtherThanScript

SpecScript == InitScript /\ [][NextScript]_vars

\* C33: in start.chat, when the second-stage HTTP response has a status
\* other than 200, the returned string is an error message for that stage
\* and not the text of the first-stage response.
C33_SecondStageHttpError ==
    (/\ script_pc = "done"
     /\ script_final.kind = "response"
     /\ script_final.status # 200) =>
        /\ StartsWith(script_answer, <<"Error: ">>)
        /\ script_answer # script_text

\* C34: in start.chat, when the call of the tool function raises, the
\* failure is captured as the tool-result text and the second-stage request
\* is still sent: the turn is not ended with an error answer.
C34_ToolFailureFedBack ==
    (script_pc = "done" /\ script_tool_end.raised) =>
        /\ Len(script_posts) = 2
        /\ Contains(script_posts[2], script_tool_end.text)
        /\ script_final # NoScriptReply


(***************************************************************************)
(* ui.LoadingIndicator: the caller and the animation threads               *)
(***************************************************************************)

\* Greatest number of start and stop calls made on one indicator, and of
\* writes counted.
MaxLoaderCalls == 5

MaxWrites == 3

\* _animate that never reads the flag again once it is in the loop.
animate_IgnoresFlag(at, is_running) ==
    CASE at = "test" -> "write"
      [] at = "write" -> "sleep"
      [] at = "sleep" -> "test"
      [] OTHER -> "exited"

\* Lines 45-52: one step of _animate from where the thread is: the test of
\* the while loop, the write of the spinner, the sleep, the write that
\* clears the line, the end of the thread.
animate(at, is_running) ==
    CASE at = "test" -> IF is_running THEN "write" ELSE "clear"
      [] at = "write" -> "sleep"
      [] at = "sleep" -> "test"
      [] OTHER -> "exited"

Alive(t) == li_threads[t] # "exited"

\* Lines 56-57: start() sets the flag and creates the thread. Every caller
\* of the repository starts an indicator that has no live thread.
LoaderStartCall ==
    /\ li_caller = "outside"
    /\ li_calls < MaxLoaderCalls
    /\ \A t \in DOMAIN li_threads : ~Alive(t)
    /\ li_running' = TRUE
    /\ li_caller' = "starting"
    /\ li_calls' = li_calls + 1
    /\ UNCHANGED <<li_thread, li_threads, li_returned, li_late_write, li_writes>>

\* Lines 57-58: the thread is stored and started, and start() returns.
LoaderSpawn ==
    /\ li_caller = "starting"
    /\ li_threads' = Append(li_threads, "test")
    /\ li_thread' = Len(li_threads) + 1
    /\ li_caller' = "outside"
    /\ li_returned' = "start"
    /\ UNCHANGED <<li_running, li_late_write, li_writes, li_calls>>

\* Lines 62-64: stop() clears the flag; without a thread it returns, with a
\* thread it goes on to join it.
LoaderStopCall ==
    /\ li_caller = "outside"
    /\ li_calls < MaxLoaderCalls
    /\ li_running' = FALSE
    /\ li_calls' = li_calls + 1
    /\ IF li_thread = 0
       THEN li_caller' = "outside" /\ li_returned' = "stop"
       ELSE li_caller' = "joining" /\ UNCHANGED li_returned
    /\ UNCHANGED <<li_thread, li_threads, li_late_write, li_writes>>

\* Line 64: thread.join() returns once the thread has ended.
LoaderJoin ==
    /\ li_caller = "joining"
    /\ ~Alive(li_thread)
    /\ li_caller' = "outside"
    /\ li_returned' = "stop"
    /\ UNCHANGED <<li_running, li_thread, li_threads, li_late_write, li_writes, li_calls>>

\* Lines 45-52: an animation thread takes its next step.
AnimateStep(t) ==
    /\ Alive(t)
    /\ li_threads' = [li_threads EXCEPT ![t] = animate(@, li_running)]
    /\ li_writes' = IF li_threads[t] \in {"write", "clear"} /\ li_writes < MaxWrites
                    THEN li_writes + 1 ELSE li_writes
    /\ li_late_write' = \/ li_late_write
                        \/ li_threads[t] \in {"write", "clear"} /\ li_returned = "stop"
    /\ UNCHANGED <<li_running, li_thread, li_caller, li_returned, li_calls>>

InitLoader ==
    /\ ChatIdle
    /\ ui_config = DefaultUIConfig
    /\ tools = <<WebSearchToolEntry>>
    /\ StreamIdle
    /\ ClientIdle
    /\ RegistryIdle
    /\ ParseIdle
    /\ parse_input = <<>>
    /\ ProcessorIdle
    /\ NoProcessorInput
    /\ SessionIdle
    /\ ExtraIdle

OtherThanLoader ==
    <<chatVars, streamVars, clientVars, registryVars, parseVars, processorVars,
      sessionVars, searchVars, lookupVars, scriptVars>>

Animate == \E t \in DOMAIN li_threads : AnimateStep(t) /\ UNCHANGED OtherThanLoader

NextLoader ==
    \/ LoaderStartCall /\ UNCHANGED OtherThanLoader
    \/ LoaderSpawn /\ UNCHANGED OtherThanLoader
    \/ LoaderStopCall /\ UNCHANGED OtherThanLoader
    \/ LoaderJoin /\ UNCHANGED OtherThanLoader
    \/ Animate

\* The scheduler runs every thread that can run: a live animation thread
\* takes its next step (the sleep of line 48 ends, the terminal takes the
\* write), and join returns once the thread has ended.
SpecLoader ==
    /\ InitLoader
    /\ [][NextLoader]_vars
    /\ WF_vars(Animate)
    /\ WF_vars(LoaderJoin /\ UNCHANGED OtherThanLoader)

====
